---- MODULE Spec2Model ----
(***************************************************************************)
(* A model of python-src/join_two_camera.py: the calibration estimator     *)
(* (overlap search), the Calibration store, the BlendContext builder and   *)
(* the compositor, and the main() pipeline that strings them together.     *)
(*                                                                         *)
(* Conventions.                                                            *)
(*  - An image is a record [h, w, px] with px[y][x] for y \in 0..h-1 and   *)
(*    x \in 0..w-1, one channel (every per-pixel operation of the source   *)
(*    acts on each channel alone, with the same masks and weights).        *)
(*  - Ratios are integer percentages (0.08 is 8); real-valued results are  *)
(*    exact fractions [num, den]; float rounding is not modelled.          *)
(*  - A raise in the source is a result record [ok |-> FALSE, err |-> e],  *)
(*    e naming the error of the specification's taxonomy for that raise.   *)
(***************************************************************************)
EXTENDS Integers, Sequences, FiniteSets, TLC

VARIABLES
    pc,            \* position of the running call
    left_match,    \* _estimate_dx_bruteforce: left match image
    right_match,   \* _estimate_dx_bruteforce: right match image
    dx_args,       \* _estimate_dx_bruteforce: the scalar arguments
    dx_result,     \* _estimate_dx_bruteforce: what the call returned or raised
    ctx_shapes,    \* the two frame shapes the BlendContext was built from
    frame_left,    \* the left camera's frame
    frame_right,   \* the right camera's frame
    calib,         \* the Calibration in use
    blend_ctx,     \* the BlendContext built from it
    exposure_match,\* the exposure_match flag of the render call
    joined,        \* what the render call returned
    file,          \* the text of the calibration file
    loaded,        \* what Calibration.from_json_dict returned or raised
    args,          \* main: the command line options
    cams,          \* main: the two cameras (the frame each one delivers)
    now,           \* main: time.time()
    start,         \* calibrate_two_cameras: start
    matchL_list,   \* calibrate_two_cameras: the left match images collected
    matchR_list,   \* calibrate_two_cameras: the right match images collected
    estimated,     \* main: the Calibration calibrate_two_cameras returned
    error,         \* main: the exception that ended the run
    reads,         \* main: how many frames each camera was asked for
    failed_cam,    \* main: the camera whose read failed, "none" if none did
    diffs,         \* _estimate_translation_ransac: the matched-point displacements
    rng,           \* _estimate_translation_ransac: the draws the generator has left
    best_count,    \* _estimate_translation_ransac: best_count
    best_inliers,  \* _estimate_translation_ransac: best_inliers
    sampled,       \* _estimate_translation_ransac: the hypotheses sampled so far
    fit,           \* what _estimate_translation_ransac returned or raised
    seed_draws,    \* the draws a generator made by np.random.default_rng(0) yields
    first_run,     \* what the first of two calls of the fit sampled and returned
    ecc_in,        \* _refine_ecc: the image shape, the initial translation, the motion
    ecc_overlap_px,\* _refine_ecc: overlap_px
    ecc_solver,    \* _refine_ecc: how cv2.findTransformECC ended, "not_run" if not called
    ecc_result,    \* what _refine_ecc returned or raised
    ws_clients,    \* WsHub._clients
    ws_task,       \* relay_server: where each connection's handler stands
    ws_open,       \* relay_server: the connections a send still succeeds on
    ws_msgs,       \* relay_server: the messages received, in order, with their handling
    ws_sent,       \* relay_server: the sends that succeeded, as <<message, connection>>
    sse_clients,   \* SseHub._clients
    sse_queue,     \* SseHub: the content of each client's Queue, oldest first
    sse_pub,       \* SseHub.publish: the call in progress
    sse_taken,     \* where each stream handler stands, and the messages it took
    sse_seq,       \* the number of publish calls so far
    scale_in,      \* calibrate_two_cameras: dx_small, the search width, the full shapes
    scale_out      \* calibrate_two_cameras: the Calibration composed, or the error

dxVars == <<left_match, right_match, dx_args, dx_result>>
blendVars == <<ctx_shapes, frame_left, frame_right, calib, blend_ctx, exposure_match, joined>>
storeVars == <<file, loaded>>
mainVars == <<args, cams, now, start, matchL_list, matchR_list, estimated, error,
              reads, failed_cam>>
ransacVars == <<diffs, rng, best_count, best_inliers, sampled, fit, seed_draws, first_run>>
eccVars == <<ecc_in, ecc_overlap_px, ecc_solver, ecc_result>>
wsVars == <<ws_clients, ws_task, ws_open, ws_msgs, ws_sent>>
sseVars == <<sse_clients, sse_queue, sse_pub, sse_taken, sse_seq>>
scaleVars == <<scale_in, scale_out>>
\* what the relay server leaves alone
relayRest == <<pc, dxVars, blendVars, storeVars, mainVars, ransacVars, eccVars, sseVars,
               scaleVars>>
\* what the SSE hub leaves alone
sseRest == <<pc, dxVars, blendVars, storeVars, mainVars, ransacVars, eccVars, wsVars,
             scaleVars>>
sideVars == <<eccVars, wsVars, sseVars, scaleVars>>
vars == <<pc, dxVars, blendVars, storeVars, mainVars, ransacVars, sideVars>>

Null == [null |-> TRUE]

(* ------------------------------- bounds -------------------------------- *)
\* width of the match images the overlap search is run on
MatchW == 5
\* pixel values of the match images the overlap search is tried on
MatchPixels == {0, 1}

\* connections the relay server accepts, and messages it handles, in a run
WsConns == 2
WsMaxMsgs == 2

\* stream clients of the SSE hub, its queue_size (32 in the program), and the
\* publish calls of a run
SseClients == 2
SseQueueSize == 2
SseMaxMsgs == 3

(* --------------------------- numeric helpers --------------------------- *)
Min2(a, b) == IF a < b THEN a ELSE b
Max2(a, b) == IF a > b THEN a ELSE b
Abs(a) == IF a < 0 THEN -a ELSE a

\* np.clip(x, lo, hi) = minimum(maximum(x, lo), hi)
Clip(x, lo, hi) == Min2(Max2(x, lo), hi)

\* int(np.ceil(pct/100 * w)) and int(np.floor(pct/100 * w))
CeilPct(pct, w) == (pct * w + 99) \div 100
FloorPct(pct, w) == (pct * w) \div 100

\* a < b for fractions with positive denominators
FracLess(a, b) == a.num * b.den < b.num * a.den

Err(e) == [ok |-> FALSE, err |-> e]

(* ------------------------------- images -------------------------------- *)
Rows(img) == 0 .. (img.h - 1)
Cols(img) == 0 .. (img.w - 1)
Shape(img) == <<img.h, img.w>>

Images(h, w, pixels) ==
    { [h |-> h, w |-> w, px |-> p] : p \in [0 .. (h - 1) -> [0 .. (w - 1) -> pixels]] }

RECURSIVE SumRange(_, _, _)
\* sum of f[i] for i in lo..hi
SumRange(f, lo, hi) == IF hi < lo THEN 0 ELSE f[hi] + SumRange(f, lo, hi - 1)

(* ------------------------ _estimate_dx_bruteforce ---------------------- *)
\* float(cv2.absdiff(left[:, dx:], right[:, :overlap_w]).sum())
SumAbsDiff(L, R, dx, overlap_w) ==
    SumRange([y \in Rows(L) |->
                 SumRange([x \in 0 .. (overlap_w - 1) |->
                              Abs(L.px[y][dx + x] - R.px[y][x])],
                          0, overlap_w - 1)],
             0, L.h - 1)

\* the overlap bands compared without the dx shift of the left image
DxScore_NoShift(L, R, dx, ref_overlap_w) ==
    LET overlap_w == L.w - dx
    IN  [num |-> SumAbsDiff(L, R, 0, overlap_w) * ref_overlap_w,
         den |-> Max2(1, L.h * overlap_w) * Max2(1, overlap_w)]

\* score = mean_abs * (ref_overlap_w / max(1, overlap_w)),
\* mean_abs = sum_abs / max(1, h * overlap_w)
DxScore(L, R, dx, ref_overlap_w) ==
    LET overlap_w == L.w - dx
    IN  [num |-> SumAbsDiff(L, R, dx, overlap_w) * ref_overlap_w,
         den |-> Max2(1, L.h * overlap_w) * Max2(1, overlap_w)]

\* a comparison that keeps the larger score
DxImproves_Greater(score, best) == best.dx = -1 \/ FracLess(best.score, score)

\* a comparison that lets an equal score replace the best
DxImproves_OrEqual(score, best) == best.dx = -1 \/ ~FracLess(best.score, score)

\* "if best_score is None or score < best_score": the strict comparison
DxImproves(score, best) == best.dx = -1 \/ FracLess(score, best.score)

RECURSIVE DxLoop(_, _, _, _, _, _, _, _, _)
\* for dx in range(dx_min, dx_max + 1, dx_step): ... ; best.dx = -1 is None.
\* best.scored collects the candidates that were scored.
DxLoop(L, R, dx, dx_max, dx_step, min_overlap_w, max_overlap_w, ref, best) ==
    IF dx > dx_max THEN best
    ELSE LET overlap_w == L.w - dx IN
         IF overlap_w < min_overlap_w THEN best
         ELSE IF overlap_w > max_overlap_w
              THEN DxLoop(L, R, dx + dx_step, dx_max, dx_step,
                          min_overlap_w, max_overlap_w, ref, best)
              ELSE LET score == DxScore(L, R, dx, ref)
                       nb == IF DxImproves(score, best)
                             THEN [dx |-> dx, score |-> score,
                                   scored |-> best.scored \cup {dx}]
                             ELSE [best EXCEPT !.scored = @ \cup {dx}]
                   IN  DxLoop(L, R, dx + dx_step, dx_max, dx_step,
                              min_overlap_w, max_overlap_w, ref, nb)

\* a smallest overlap width rounded down instead of up
MinOverlapW_Floor(min_pct, w) == Max2(1, FloorPct(min_pct, w))

\* the overlap widths permitted by the two ratios (lines 208-212)
MinOverlapW(min_pct, w) == Max2(1, CeilPct(min_pct, w))

\* the largest overlap width without the clip that lifts it to the smallest
MaxOverlapW_NoClip(min_pct, max_pct, w) == Min2(FloorPct(max_pct, w), w)

MaxOverlapW(min_pct, max_pct, w) == Clip(FloorPct(max_pct, w), MinOverlapW(min_pct, w), w)

\* the caller's dx range after clipping to the image (lines 215-220)
UserDxMin(dx_min, w) == Clip(dx_min, 0, w - 1)
UserDxMax(dx_min, dx_max, w) == Max2(Clip(dx_max, 0, w - 1), UserDxMin(dx_min, w))

\* the constrained range (lines 223-224)
DxLo(a, w) ==
    Max2(UserDxMin(a.dx_min, w),
         Clip(w - MaxOverlapW(a.min_pct, a.max_pct, w), 0, w - 1))
DxHi(a, w) ==
    Min2(UserDxMax(a.dx_min, a.dx_max, w),
         Clip(w - MinOverlapW(a.min_pct, w), 0, w - 1))
DxStep(a) == Max2(1, a.dx_step)

EstimateDxBruteforce(L, R, a) ==
    IF Shape(L) # Shape(R) THEN Err("ShapeMismatch")
    ELSE LET w == L.w
             lo == DxLo(a, w)
             hi == DxHi(a, w)
         IN  IF hi < lo THEN Err("EmptySearchRange")
             ELSE LET best == DxLoop(L, R, lo, hi, DxStep(a),
                                     MinOverlapW(a.min_pct, w),
                                     MaxOverlapW(a.min_pct, a.max_pct, w),
                                     w - lo,
                                     [dx |-> -1, score |-> [num |-> 0, den |-> 1],
                                      scored |-> {}])
                  IN  IF best.dx = -1 THEN Err("EstimationFailed")
                      ELSE [ok |-> TRUE, dx |-> best.dx, score |-> best.score,
                            scored |-> best.scored]

(* ---------------- specification of the overlap search ------------------ *)
DxPcts == {10, 50, 100}
\* a smallest ratio above 1 asks for an overlap wider than the image
DxMinPcts == DxPcts \cup {150}
DxArgs ==
    [min_pct : DxMinPcts, max_pct : DxPcts,
     dx_min : {0, 2, 3, MatchW}, dx_max : {1, MatchW + 2}, dx_step : {0, 1, 2}]

BlendIdle ==
    /\ ctx_shapes = Null
    /\ frame_left = Null /\ frame_right = Null /\ calib = Null
    /\ blend_ctx = Null /\ exposure_match = FALSE /\ joined = Null

StoreIdle == file = Null /\ loaded = Null

EccIdle ==
    /\ ecc_in = Null /\ ecc_overlap_px = -1 /\ ecc_solver = "not_run" /\ ecc_result = Null
\* hub = WsHub(): no client; no connection is open and no handler runs yet
\* (tasks 1 .. WsConns), ping_loop (task 0) sleeps
WsIdle ==
    /\ ws_clients = {}
    /\ ws_task = [t \in 0 .. WsConns |->
                     [at |-> IF t = 0 THEN "sleep" ELSE "new", msg |-> 0, todo |-> {},
                      disconnected |-> {}]]
    /\ ws_open = {} /\ ws_msgs = <<>> /\ ws_sent = {}
\* SseHub(cameras, queue_size): no client, no stream handler (1 .. SseClients)
\* runs yet, and no publish call has been made (its loop has nothing to do)
SseIdle ==
    /\ sse_clients = {}
    /\ sse_queue = [q \in 1 .. SseClients |-> <<>>]
    /\ sse_pub = [at |-> "loop", msg |-> 0, clients |-> {}, todo |-> {}, q |-> 0,
                  newest |-> <<>>]
    /\ sse_taken = [q \in 1 .. SseClients |-> [at |-> "new", msgs |-> <<>>]]
    /\ sse_seq = 0
SideIdle == EccIdle /\ WsIdle /\ SseIdle /\ scale_in = Null /\ scale_out = Null

RansacIdle ==
    /\ diffs = Null /\ rng = Null /\ best_count = -1 /\ best_inliers = Null
    /\ sampled = <<>> /\ fit = Null /\ seed_draws = Null /\ first_run = Null

MainIdle ==
    /\ args = Null /\ cams = Null /\ now = 0 /\ start = 0
    /\ matchL_list = <<>> /\ matchR_list = <<>> /\ estimated = Null /\ error = Null
    /\ reads = Null /\ failed_cam = "none"

DxInit ==
    /\ SideIdle
    /\ pc = "dx_call"
    /\ BlendIdle
    /\ StoreIdle
    /\ MainIdle
    /\ RansacIdle
    /\ left_match \in Images(1, MatchW, MatchPixels)
    /\ right_match \in Images(1, MatchW, MatchPixels) \cup Images(1, MatchW - 1, {0})
    /\ dx_args \in DxArgs
    /\ dx_result = Null

DxCall ==
    /\ pc = "dx_call"
    /\ dx_result' = EstimateDxBruteforce(left_match, right_match, dx_args)
    /\ pc' = "dx_done"
    /\ UNCHANGED <<sideVars, ransacVars, left_match, right_match, dx_args, blendVars, storeVars, mainVars>>

DxNext == DxCall

SpecDx == DxInit /\ [][DxNext]_vars

(* ------------------------- claims: overlap search ----------------------- *)
\* right[:, :w-d] equals left[:, d:]: the right image is the left one cropped at d
ShiftedBy(L, R, d) ==
    \A y \in Rows(L) : \A x \in 0 .. (L.w - d - 1) : R.px[y][x] = L.px[y][d + x]

\* the shifts d the claim C6 speaks of: inside the constrained range, step 1,
\* the smallest overlap ratio at most 1
KnownShifts ==
    IF /\ Shape(left_match) = Shape(right_match) /\ DxStep(dx_args) = 1
       /\ dx_args.min_pct <= 100
    THEN { d \in DxLo(dx_args, left_match.w) .. DxHi(dx_args, left_match.w) :
             ShiftedBy(left_match, right_match, d) }
    ELSE {}

\* C6 as stated: when the right image is the left one cropped at a known shift d
\* inside the constrained range and the step is 1, the search returns a dx
\* within 1 pixel of d with score zero.
C6_Original ==
    pc = "dx_done" =>
        \A d \in KnownShifts :
            /\ dx_result.ok
            /\ dx_result.score.num = 0
            /\ Abs(dx_result.dx - d) <= 1

\* C6 as amended: under the same precondition the search returns score zero and
\* the smallest dx of the constrained range at which the overlapping bands
\* coincide; that dx is at most d, and is d when no smaller candidate matches.
C6_ShiftRecovered ==
    pc = "dx_done" =>
        \A d \in KnownShifts :
            /\ dx_result.ok
            /\ dx_result.score.num = 0
            /\ dx_result.dx <= d
            /\ dx_result.dx \in KnownShifts
            /\ \A e \in KnownShifts : dx_result.dx <= e

\* C6 witness: a non-constant image pair with a known shift d above the start
\* of the range, and the search returned exactly d.
C6_Witness ==
    /\ pc = "dx_done"
    /\ \E d \in KnownShifts :
          /\ d > DxLo(dx_args, left_match.w)
          /\ dx_result.ok /\ dx_result.dx = d
    /\ \E x \in Cols(left_match) : left_match.px[0][x] # left_match.px[0][0]

Inverted == dx_args.min_pct > dx_args.max_pct /\ dx_args.min_pct <= 100

\* the only dx left by an inverted pair of ratios: w - ceil(min_ratio * w)
InvertedTarget == left_match.w - MinOverlapW(dx_args.min_pct, left_match.w)

\* C7 as stated: with min_overlap_ratio > max_overlap_ratio the search fails with
\* EmptySearchRange for every caller-specified dx range and step.
C7_Original ==
    (pc = "dx_done" /\ Shape(left_match) = Shape(right_match) /\ Inverted)
        => dx_result = Err("EmptySearchRange")

\* C7 as amended: with the ratios inverted (both within [0,1]) the permitted
\* overlap collapses to the single width ceil(min_ratio * w); the search fails with
\* EmptySearchRange exactly when dx = w - ceil(min_ratio * w) lies outside the
\* caller's clipped dx range, and returns that dx otherwise.
C7_InvertedRange ==
    (pc = "dx_done" /\ Shape(left_match) = Shape(right_match) /\ Inverted) =>
        IF /\ UserDxMin(dx_args.dx_min, left_match.w) <= InvertedTarget
           /\ InvertedTarget <= UserDxMax(dx_args.dx_min, dx_args.dx_max, left_match.w)
        THEN dx_result.ok /\ dx_result.dx = InvertedTarget
        ELSE dx_result = Err("EmptySearchRange")

\* C7 witness: inverted ratios and the search failed with EmptySearchRange.
C7_Witness ==
    /\ pc = "dx_done" /\ Inverted
    /\ Shape(left_match) = Shape(right_match)
    /\ dx_result = Err("EmptySearchRange")

(* =========================== BlendContext ============================== *)
\* Homographies are 3x3 matrices; the warps below are those of a pure
\* translation with integer offsets (all that calibrate_two_cameras builds),
\* for which INTER_NEAREST and INTER_LINEAR sampling read the same source pixel.
Translation(tx, ty) == <<<<1, 0, tx>>, <<0, 1, ty>>, <<0, 0, 1>>>>
Tx(H) == H[1][3]
Ty(H) == H[2][3]

\* cv2.warpPerspective(img, H, (out_w, out_h), borderValue=0) for an affine H
\* whose linear part has integer entries and determinant 1 or -1 (translations,
\* flips, integer shears): the canvas pixel is the source pixel at the inverse
\* image of its position, which is a whole pixel, so nearest and linear sampling
\* agree
WarpPerspective(img, H, out_w, out_h) ==
    LET det == H[1][1] * H[2][2] - H[1][2] * H[2][1] IN
    [h |-> out_h, w |-> out_w,
     px |-> [y \in 0 .. (out_h - 1) |-> [x \in 0 .. (out_w - 1) |->
               LET sx == det * (H[2][2] * (x - Tx(H)) - H[1][2] * (y - Ty(H)))
                   sy == det * (H[1][1] * (y - Ty(H)) - H[2][1] * (x - Tx(H)))
               IN  IF sx \in Cols(img) /\ sy \in Rows(img) THEN img.px[sy][sx] ELSE 0]]]

\* np.ones(shape_hw, dtype=np.uint8) * 255
Ones255(shape_hw) ==
    [h |-> shape_hw[1], w |-> shape_hw[2],
     px |-> [y \in 0 .. (shape_hw[1] - 1) |-> [x \in 0 .. (shape_hw[2] - 1) |-> 255]]]

\* (mask > 0).astype(np.uint8)
Positive(mask) ==
    [y \in Rows(mask) |-> [x \in Cols(mask) |-> IF mask.px[y][x] > 0 THEN 1 ELSE 0]]

\* a & b on uint8 values that are 0 or 1
BitAnd(a, b) == IF a = 1 /\ b = 1 THEN 1 ELSE 0

\* the exclusive region without the complement of the other mask
OnlyMask_NoComplement(a, b) == a = 1

\* (mL & (1 - mR)).astype(bool), per pixel
OnlyMask(a, b) == BitAnd(a, 1 - b) = 1

\* (mL & mR).astype(bool), per pixel
BothMask(a, b) == BitAnd(a, b) = 1

\* cv2.distanceTransform(m * 255, cv2.DIST_L2, 5): the 5x5 chamfer distance to the
\* nearest zero pixel, in units of 1/DtScale pixel; steps (1,0), (1,1), (2,1)
\* cost DtA, DtB, DtC
\* (1, 1.4, 2.1969 pixels, to 1/100 pixel).
DtScale == 100
DtA == 100
DtB == 140
DtC == 220
\* the distance OpenCV leaves in a mask that has no zero pixel: its initial
\* value, 2^29 in 16-bit fixed point, 8192 pixels
DtNoZero == 819200

ChamferDist(dx, dy) ==
    LET M == Max2(dx, dy)
        m == Min2(dx, dy)
    IN  IF 2 * m <= M THEN m * DtC + (M - 2 * m) * DtA
        ELSE (M - m) * DtC + (2 * m - M) * DtB

SetMin(S) == CHOOSE v \in S : \A u \in S : v <= u

DistanceTransform(m, h, w) ==
    LET zeros == { <<zy, zx>> \in (0 .. (h - 1)) \X (0 .. (w - 1)) : m[zy][zx] = 0 }
    IN  [y \in 0 .. (h - 1) |-> [x \in 0 .. (w - 1) |->
            IF m[y][x] = 0 THEN 0
            ELSE IF zeros = {} THEN DtNoZero
            ELSE SetMin({ ChamferDist(Abs(x - z[2]), Abs(y - z[1])) : z \in zeros })]]

\* the left weight with the sum of the distances left out of the divisor
WeightLeft_NoSum(dtL, dtR) ==
    IF dtR > 0 THEN [num |-> dtL, den |-> dtR] ELSE [num |-> 0, den |-> 1]

\* wL = dtL / np.maximum(1e-6, dtL + dtR); 0 / 1e-6 is 0
WeightLeft(dtL, dtR) ==
    IF dtL + dtR > 0 THEN [num |-> dtL, den |-> dtL + dtR] ELSE [num |-> 0, den |-> 1]

\* wR = 1.0 - wL
WeightRight(wL) == [num |-> wL.den - wL.num, den |-> wL.den]

AnyTrue(b, h, w) == \E y \in 0 .. (h - 1) : \E x \in 0 .. (w - 1) : b[y][x]

build_blend_context(frame_left_shape_hw, frame_right_shape_hw, c) ==
    LET out_w == c.out_size_wh[1]
        out_h == c.out_size_wh[2]
        mask_left == WarpPerspective(Ones255(frame_left_shape_hw), c.H_left_to_canvas, out_w, out_h)
        mask_right == WarpPerspective(Ones255(frame_right_shape_hw), c.H_right_to_canvas, out_w, out_h)
        mL == Positive(mask_left)
        mR == Positive(mask_right)
        ys == 0 .. (out_h - 1)
        xs == 0 .. (out_w - 1)
        both == [y \in ys |-> [x \in xs |-> BothMask(mL[y][x], mR[y][x])]]
        onlyL == [y \in ys |-> [x \in xs |-> OnlyMask(mL[y][x], mR[y][x])]]
        onlyR == [y \in ys |-> [x \in xs |-> OnlyMask(mR[y][x], mL[y][x])]]
        dtL == DistanceTransform(mL, out_h, out_w)
        dtR == DistanceTransform(mR, out_h, out_w)
        any == AnyTrue(both, out_h, out_w)
        wL == [y \in ys |-> [x \in xs |->
                 IF any THEN WeightLeft(dtL[y][x], dtR[y][x]) ELSE [num |-> 1, den |-> 1]]]
        wR == [y \in ys |-> [x \in xs |->
                 IF any THEN WeightRight(wL[y][x]) ELSE [num |-> 0, den |-> 1]]]
    IN  [out_size_wh |-> <<out_w, out_h>>,
         mask_left |-> mask_left, mask_right |-> mask_right,
         wL3 |-> wL, wR3 |-> wR,
         both |-> both, onlyL |-> onlyL, onlyR |-> onlyR]

(* ============================= Compositor =============================== *)
\* sum of img.px over the pixels where sel holds
MaskedSum(img, sel) ==
    SumRange([y \in Rows(img) |->
                 SumRange([x \in Cols(img) |-> IF sel[y][x] THEN img.px[y][x] ELSE 0],
                          0, img.w - 1)],
             0, img.h - 1)

\* np.clip(right * gain, 0, 255).astype(np.uint8) for one pixel, with
\* gain = mean_L / np.maximum(1e-6, mean_R) and the means sum_L / n, sum_R / n:
\* a zero mean_R makes the gain mean_L * 10^6, which saturates any non-zero pixel
GainPixel(v, sum_L, sum_R) ==
    IF sum_R = 0
    THEN (IF v = 0 \/ sum_L = 0 THEN 0 ELSE 255)
    ELSE Clip((v * sum_L) \div sum_R, 0, 255)

\* an exposure match whose means run over the whole canvas
_exposure_match_WholeCanvas(left_canvas, right_canvas, mask_left, mask_right) ==
    LET all == [y \in Rows(right_canvas) |-> [x \in Cols(right_canvas) |-> TRUE]]
        sum_L == MaskedSum(left_canvas, all)
        sum_R == MaskedSum(right_canvas, all)
    IN  [right_canvas EXCEPT !.px =
            [y \in Rows(right_canvas) |-> [x \in Cols(right_canvas) |->
                GainPixel(right_canvas.px[y][x], sum_L, sum_R)]]]

_exposure_match_in_overlap(left_canvas, right_canvas, mask_left, mask_right) ==
    LET both == [y \in Rows(right_canvas) |-> [x \in Cols(right_canvas) |->
                    mask_left.px[y][x] > 0 /\ mask_right.px[y][x] > 0]]
    IN  IF ~AnyTrue(both, right_canvas.h, right_canvas.w) THEN right_canvas
        ELSE LET sum_L == MaskedSum(left_canvas, both)
                 sum_R == MaskedSum(right_canvas, both)
             IN  [right_canvas EXCEPT !.px =
                     [y \in Rows(right_canvas) |-> [x \in Cols(right_canvas) |->
                         GainPixel(right_canvas.px[y][x], sum_L, sum_R)]]]

\* an overlap pixel that takes the left canvas value whatever the weights
BlendPixel_LeftOnly(l, r, wl, wr) == Clip(l, 0, 255)

\* left * wL + right * wR, truncated as astype(np.uint8) does after the clip
BlendPixel(l, r, wl, wr) ==
    IF wl.den = wr.den
    THEN Clip((l * wl.num + r * wr.num) \div wl.den, 0, 255)
    ELSE Clip((l * wl.num * wr.den + r * wr.num * wl.den) \div (wl.den * wr.den), 0, 255)

\* one output pixel with the two exclusive regions exchanged
RenderPixel_Swapped(l, r, wl, wr, both, onlyL, onlyR) ==
    IF onlyR THEN Clip(l, 0, 255)
    ELSE IF onlyL THEN Clip(r, 0, 255)
    ELSE IF both THEN BlendPixel(l, r, wl, wr)
    ELSE 0

\* one output pixel: out = zeros; out[both] = ...; out[onlyL] = left;
\* out[onlyR] = right (a later assignment overwrites an earlier one); clip; uint8
RenderPixel(l, r, wl, wr, both, onlyL, onlyR) ==
    IF onlyR THEN Clip(r, 0, 255)
    ELSE IF onlyL THEN Clip(l, 0, 255)
    ELSE IF both THEN BlendPixel(l, r, wl, wr)
    ELSE 0

render_joined_frame_with_context(fl, fr, c, ctx, exposure) ==
    LET out_w == ctx.out_size_wh[1]
        out_h == ctx.out_size_wh[2]
        left_canvas == WarpPerspective(fl, c.H_left_to_canvas, out_w, out_h)
        right_warped == WarpPerspective(fr, c.H_right_to_canvas, out_w, out_h)
        right_canvas == IF exposure
                        THEN _exposure_match_in_overlap(left_canvas, right_warped,
                                                        ctx.mask_left, ctx.mask_right)
                        ELSE right_warped
    IN  [h |-> out_h, w |-> out_w,
         px |-> [y \in 0 .. (out_h - 1) |-> [x \in 0 .. (out_w - 1) |->
                   RenderPixel(left_canvas.px[y][x], right_canvas.px[y][x],
                               ctx.wL3[y][x], ctx.wR3[y][x],
                               ctx.both[y][x], ctx.onlyL[y][x], ctx.onlyR[y][x])]]]

(* ------------- specification of the builder and the compositor ---------- *)
\* widest frame
FrameW == 3
\* largest offset of a canvas homography
MaxShift == 2

FramePixels == {40, 200}
FrameShapes == {<<1, FrameW>>, <<2, 2>>}
Frames == UNION { Images(sh[1], sh[2], FramePixels) : sh \in FrameShapes }

NoneVal == [t |-> "none"]

BlendCalibrations ==
    { [H_right_to_left |-> Translation(txr - txl, tyr),
       out_size_wh |-> <<ow, oh>>,
       H_left_to_canvas |-> Translation(txl, 0),
       H_right_to_canvas |-> Translation(txr, tyr),
       feature |-> "bruteforce_dx", ecc_motion |-> "translation", ecc_cc |-> NoneVal] :
      txl \in {0, 1}, txr \in 0 .. MaxShift, tyr \in {0, 1},
      ow \in {FrameW - 1, FrameW + 1}, oh \in {1, 2} }

DxIdle ==
    /\ left_match = Null /\ right_match = Null /\ dx_args = Null /\ dx_result = Null

BlendInit ==
    /\ SideIdle
    /\ pc = "build_ctx"
    /\ DxIdle
    /\ ctx_shapes \in FrameShapes \X FrameShapes
    /\ calib \in BlendCalibrations
    /\ frame_left = Null /\ frame_right = Null
    /\ blend_ctx = Null /\ exposure_match = FALSE /\ joined = Null
    /\ StoreIdle
    /\ MainIdle
    /\ RansacIdle

\* blend_ctx = build_blend_context(frameL0.shape[:2], frameR0.shape[:2], calib=calib)
BuildCtx ==
    /\ pc = "build_ctx"
    /\ blend_ctx' = build_blend_context(ctx_shapes[1], ctx_shapes[2], calib)
    /\ pc' = "render"
    /\ UNCHANGED <<sideVars, ransacVars, dxVars, ctx_shapes, frame_left, frame_right, calib,
                   exposure_match, joined, storeVars, mainVars>>

\* one call of render_joined_frame_with_context, on any pair of frames
Render ==
    /\ pc = "render"
    /\ \E fl \in Frames, fr \in Frames, e \in BOOLEAN :
          /\ frame_left' = fl
          /\ frame_right' = fr
          /\ exposure_match' = e
          /\ joined' = render_joined_frame_with_context(fl, fr, calib, blend_ctx, e)
    /\ pc' = "rendered"
    /\ UNCHANGED <<sideVars, ransacVars, dxVars, ctx_shapes, calib, blend_ctx, storeVars, mainVars>>

BlendNext == BuildCtx \/ Render

SpecBlend == BlendInit /\ [][BlendNext]_vars

(* --------------- the renderer that builds its masks per frame ----------- *)
\* a feather blend that leaves the right-only region black
_distance_feather_blend_NoOnlyR(left_canvas, right_canvas, mask_left, mask_right) ==
    LET mL == Positive(mask_left)
        mR == Positive(mask_right)
        dtL == DistanceTransform(mL, left_canvas.h, left_canvas.w)
        dtR == DistanceTransform(mR, left_canvas.h, left_canvas.w)
    IN  [left_canvas EXCEPT !.px =
            [y \in Rows(left_canvas) |-> [x \in Cols(left_canvas) |->
                IF OnlyMask(mL[y][x], mR[y][x]) THEN Clip(left_canvas.px[y][x], 0, 255)
                ELSE IF BothMask(mL[y][x], mR[y][x])
                     THEN BlendPixel(left_canvas.px[y][x], right_canvas.px[y][x],
                                     WeightLeft(dtL[y][x], dtR[y][x]),
                                     WeightRight(WeightLeft(dtL[y][x], dtR[y][x])))
                     ELSE 0]]]

\* lines 341-364: out = zeros; the overlap is blended with weights made from the
\* two distance transforms; then onlyL and onlyR are copied; clip; uint8
_distance_feather_blend(left_canvas, right_canvas, mask_left, mask_right) ==
    LET mL == Positive(mask_left)
        mR == Positive(mask_right)
        dtL == DistanceTransform(mL, left_canvas.h, left_canvas.w)
        dtR == DistanceTransform(mR, left_canvas.h, left_canvas.w)
    IN  [left_canvas EXCEPT !.px =
            [y \in Rows(left_canvas) |-> [x \in Cols(left_canvas) |->
                IF OnlyMask(mR[y][x], mL[y][x]) THEN Clip(right_canvas.px[y][x], 0, 255)
                ELSE IF OnlyMask(mL[y][x], mR[y][x]) THEN Clip(left_canvas.px[y][x], 0, 255)
                ELSE IF BothMask(mL[y][x], mR[y][x])
                     THEN BlendPixel(left_canvas.px[y][x], right_canvas.px[y][x],
                                     WeightLeft(dtL[y][x], dtR[y][x]),
                                     WeightRight(WeightLeft(dtL[y][x], dtR[y][x])))
                     ELSE 0]]]

\* lines 589-612
render_joined_frame(fl, fr, c, exposure) ==
    LET out_w == c.out_size_wh[1]
        out_h == c.out_size_wh[2]
        left_canvas == WarpPerspective(fl, c.H_left_to_canvas, out_w, out_h)
        right_warped == WarpPerspective(fr, c.H_right_to_canvas, out_w, out_h)
        mask_left == WarpPerspective(Ones255(Shape(fl)), c.H_left_to_canvas, out_w, out_h)
        mask_right == WarpPerspective(Ones255(Shape(fr)), c.H_right_to_canvas, out_w, out_h)
        right_canvas == IF exposure
                        THEN _exposure_match_in_overlap(left_canvas, right_warped,
                                                        mask_left, mask_right)
                        ELSE right_warped
    IN  _distance_feather_blend(left_canvas, right_canvas, mask_left, mask_right)

\* the frames of one shape
FramesOf(shape_hw) == Images(shape_hw[1], shape_hw[2], FramePixels)

\* one call of render_joined_frame_with_context on frames of the shapes the
\* BlendContext was built from
RenderSameShapes ==
    /\ pc = "render"
    /\ \E fl \in FramesOf(ctx_shapes[1]), fr \in FramesOf(ctx_shapes[2]), e \in BOOLEAN :
          /\ frame_left' = fl
          /\ frame_right' = fr
          /\ exposure_match' = e
          /\ joined' = render_joined_frame_with_context(fl, fr, calib, blend_ctx, e)
    /\ pc' = "rendered"
    /\ UNCHANGED <<sideVars, ransacVars, dxVars, ctx_shapes, calib, blend_ctx, storeVars, mainVars>>

\* one call of render_joined_frame on frames of those shapes
RenderPlain ==
    /\ pc = "render"
    /\ \E fl \in FramesOf(ctx_shapes[1]), fr \in FramesOf(ctx_shapes[2]), e \in BOOLEAN :
          /\ frame_left' = fl
          /\ frame_right' = fr
          /\ exposure_match' = e
          /\ joined' = render_joined_frame(fl, fr, calib, e)
    /\ pc' = "rendered_plain"
    /\ UNCHANGED <<sideVars, ransacVars, dxVars, ctx_shapes, calib, blend_ctx, storeVars, mainVars>>

RenderersNext == BuildCtx \/ RenderSameShapes \/ RenderPlain

SpecRenderers == BlendInit /\ [][RenderersNext]_vars

(* -------------------- claims: BlendContext, compositor ------------------ *)
CanvasPixels(ctx) == (0 .. (ctx.out_size_wh[2] - 1)) \X (0 .. (ctx.out_size_wh[1] - 1))

Covered(ctx, p) == ctx.mask_left.px[p[1]][p[2]] # 0 \/ ctx.mask_right.px[p[1]][p[2]] # 0

\* C1: in the BlendContext that build_blend_context returns, the regions both,
\* onlyL and onlyR are pairwise disjoint and their union is exactly the set of
\* canvas pixels where mask_left or mask_right is non-zero, so every canvas pixel
\* is in exactly one of overlap, left-only, right-only, neither.
C1_BlendPartition ==
    blend_ctx # Null =>
        \A p \in CanvasPixels(blend_ctx) :
            LET b == blend_ctx.both[p[1]][p[2]]
                l == blend_ctx.onlyL[p[1]][p[2]]
                r == blend_ctx.onlyR[p[1]][p[2]]
            IN  /\ ~(b /\ l) /\ ~(b /\ r) /\ ~(l /\ r)
                /\ (b \/ l \/ r) <=> Covered(blend_ctx, p)

\* C1 witness: a BlendContext in which all four classes occur.
C1_Witness ==
    /\ blend_ctx # Null
    /\ \E p \in CanvasPixels(blend_ctx) : blend_ctx.both[p[1]][p[2]]
    /\ \E p \in CanvasPixels(blend_ctx) : blend_ctx.onlyL[p[1]][p[2]]
    /\ \E p \in CanvasPixels(blend_ctx) : blend_ctx.onlyR[p[1]][p[2]]
    /\ \E p \in CanvasPixels(blend_ctx) : ~Covered(blend_ctx, p)

\* the distances of a BlendContext's masks to their nearest zero pixel
CtxDt(ctx, mask) ==
    DistanceTransform(Positive(mask), ctx.out_size_wh[2], ctx.out_size_wh[1])

\* C2: for every pixel of the overlap region weight_left + weight_right = 1,
\* weight_left lies in [0,1] and is distanceLeft / (distanceLeft + distanceRight),
\* so the pixel nearer the edge of the left coverage leans to the right camera.
C2_OverlapWeights ==
    blend_ctx # Null =>
        \A p \in CanvasPixels(blend_ctx) :
            blend_ctx.both[p[1]][p[2]] =>
                LET wl == blend_ctx.wL3[p[1]][p[2]]
                    wr == blend_ctx.wR3[p[1]][p[2]]
                    dl == CtxDt(blend_ctx, blend_ctx.mask_left)[p[1]][p[2]]
                    dr == CtxDt(blend_ctx, blend_ctx.mask_right)[p[1]][p[2]]
                IN  /\ wl.den > 0 /\ wr.den = wl.den
                    /\ wl.num + wr.num = wl.den
                    /\ 0 <= wl.num /\ wl.num <= wl.den
                    /\ wl.num = dl /\ wl.den = dl + dr
                    /\ (dl < dr) => (2 * wl.num < wl.den)

\* C2 witness: an overlap pixel that lies nearer the edge of the left coverage
\* than the edge of the right one, with a left weight below one half.
C2_Witness ==
    /\ blend_ctx # Null
    /\ \E p \in CanvasPixels(blend_ctx) :
          /\ blend_ctx.both[p[1]][p[2]]
          /\ 0 < blend_ctx.wL3[p[1]][p[2]].num
          /\ 2 * blend_ctx.wL3[p[1]][p[2]].num < blend_ctx.wL3[p[1]][p[2]].den

\* the value of the warped frame at canvas pixel p: the frame pixel a translation
\* puts there, black where the frame does not reach
WarpedAt(frame, H, p) ==
    IF (p[1] - Ty(H)) \in Rows(frame) /\ (p[2] - Tx(H)) \in Cols(frame)
    THEN frame.px[p[1] - Ty(H)][p[2] - Tx(H)]
    ELSE 0

\* C3 as stated: for both values of the flag every left-only output pixel equals
\* the warped left frame's value and every right-only output pixel equals the
\* warped right frame's value.
C3_Original ==
    pc = "rendered" =>
        \A p \in CanvasPixels(blend_ctx) :
            /\ blend_ctx.onlyL[p[1]][p[2]] =>
                   joined.px[p[1]][p[2]] = WarpedAt(frame_left, calib.H_left_to_canvas, p)
            /\ blend_ctx.onlyR[p[1]][p[2]] =>
                   joined.px[p[1]][p[2]] = WarpedAt(frame_right, calib.H_right_to_canvas, p)

\* the overlap sums of the two warped frames, which set the exposure gain
OverlapSum(frame, H) ==
    MaskedSum(WarpPerspective(frame, H, blend_ctx.out_size_wh[1], blend_ctx.out_size_wh[2]),
              blend_ctx.both)

\* C3 as amended: for both values of the flag every left-only output pixel equals
\* the warped left frame's value; a right-only output pixel equals the warped
\* right frame's value when exposure_match is off or the overlap is empty, and
\* with exposure_match on it is that value times the overlap gain
\* mean_left / max(1e-6, mean_right), clipped to [0, 255].
C3_ExclusiveRegions ==
    pc = "rendered" =>
        \A p \in CanvasPixels(blend_ctx) :
            /\ blend_ctx.onlyL[p[1]][p[2]] =>
                   joined.px[p[1]][p[2]] = WarpedAt(frame_left, calib.H_left_to_canvas, p)
            /\ blend_ctx.onlyR[p[1]][p[2]] =>
                   joined.px[p[1]][p[2]] =
                       LET v == WarpedAt(frame_right, calib.H_right_to_canvas, p)
                       IN  IF exposure_match
                              /\ AnyTrue(blend_ctx.both, joined.h, joined.w)
                           THEN GainPixel(v, OverlapSum(frame_left, calib.H_left_to_canvas),
                                          OverlapSum(frame_right, calib.H_right_to_canvas))
                           ELSE v

\* C3 witness: a frame rendered with exposure_match on that has a left-only
\* pixel and a right-only pixel whose value the gain changed.
C3_Witness ==
    /\ pc = "rendered" /\ exposure_match
    /\ \E p \in CanvasPixels(blend_ctx) : blend_ctx.onlyL[p[1]][p[2]]
    /\ \E p \in CanvasPixels(blend_ctx) :
          /\ blend_ctx.onlyR[p[1]][p[2]]
          /\ joined.px[p[1]][p[2]] # WarpedAt(frame_right, calib.H_right_to_canvas, p)

\* a render call returned a composite frame (and did not raise)
IsComposite(r) == "px" \in DOMAIN r

ShapesDisagree ==
    Shape(frame_left) # ctx_shapes[1] \/ Shape(frame_right) # ctx_shapes[2]

\* C5: rendering fails with ResolutionMismatch, and returns no composite frame,
\* whenever the shape of the left or right frame differs from the shapes the
\* BlendContext was built from.
C5_ResolutionMismatch ==
    (pc = "rendered" /\ ShapesDisagree) => ~IsComposite(joined)

(* =========================== Calibration store =========================== *)
\* Python values as json sees them; a float32 array is a tuple of rows.
PyFloat(v) == [t |-> "float", v |-> v]
PyInt(v) == [t |-> "int", v |-> v]
PyStr(v) == [t |-> "str", s |-> v]
PyList(items) == [t |-> "list", items |-> items]
IsNum(v) == v.t \in {"int", "float"}

\* ndarray.tolist() of a 2-D float32 array: nested lists of Python floats
ToList(H) ==
    PyList([i \in 1 .. Len(H) |-> PyList([j \in 1 .. Len(H[i]) |-> PyFloat(H[i][j])])])

\* Calibration.to_json_dict
to_json_dict(c) ==
    [H_right_to_left |-> ToList(c.H_right_to_left),
     out_size_wh |-> PyList(<<PyInt(c.out_size_wh[1]), PyInt(c.out_size_wh[2])>>),
     H_left_to_canvas |-> ToList(c.H_left_to_canvas),
     H_right_to_canvas |-> ToList(c.H_right_to_canvas),
     feature |-> PyStr(c.feature),
     ecc_motion |-> PyStr(c.ecc_motion),
     ecc_cc |-> c.ecc_cc]

RECURSIVE JsonEncode(_)
\* json.dumps of a value: a float is written with a decimal point ("2.0"), an
\* int without ("2"), None as null
JsonEncode(v) ==
    CASE v.t = "float" -> [lit |-> "number", digits |-> v.v, point |-> TRUE]
      [] v.t = "int" -> [lit |-> "number", digits |-> v.v, point |-> FALSE]
      [] v.t = "str" -> [lit |-> "string", chars |-> v.s]
      [] v.t = "none" -> [lit |-> "null"]
      [] v.t = "list" -> [lit |-> "array",
                          items |-> [i \in 1 .. Len(v.items) |-> JsonEncode(v.items[i])]]

RECURSIVE JsonDecode(_)
\* json.loads of one value: a number with a decimal point is a float
JsonDecode(x) ==
    CASE x.lit = "number" -> IF x.point THEN PyFloat(x.digits) ELSE PyInt(x.digits)
      [] x.lit = "string" -> PyStr(x.chars)
      [] x.lit = "null" -> NoneVal
      [] x.lit = "array" -> PyList([i \in 1 .. Len(x.items) |-> JsonDecode(x.items[i])])

\* json.dumps(dict) and json.loads(text) of the calibration file
Dumps(d) == [lit |-> "object", members |-> [k \in DOMAIN d |-> JsonEncode(d[k])]]
Loads(text) == [k \in DOMAIN text.members |-> JsonDecode(text.members[k])]

\* np.array(v, dtype=np.float32) of a list of numbers or of a list of lists of
\* numbers: the array of that shape, whatever the shape; a ragged list or an
\* entry that is no number raises ValueError
NpArrayF32(v) ==
    IF v.t # "list" THEN Err("ValueError")
    ELSE IF \A i \in 1 .. Len(v.items) : IsNum(v.items[i])
    THEN [ok |-> TRUE, arr |-> [i \in 1 .. Len(v.items) |-> v.items[i].v]]
    ELSE IF /\ \A i \in 1 .. Len(v.items) :
                  /\ v.items[i].t = "list"
                  /\ Len(v.items[i].items) = Len(v.items[1].items)
                  /\ \A j \in 1 .. Len(v.items[i].items) : IsNum(v.items[i].items[j])
    THEN [ok |-> TRUE,
          arr |-> [i \in 1 .. Len(v.items) |->
                     [j \in 1 .. Len(v.items[i].items) |-> v.items[i].items[j].v]]]
    ELSE Err("ValueError")

\* d.get(key, default)
DictGet(d, key, default) == IF key \in DOMAIN d THEN d[key] ELSE default

\* str(v) of a str is the str itself
StrOf(v) == IF v.t = "str" THEN v.s ELSE "repr"

\* from_json_dict with H_right_to_canvas read from the left camera's key
from_json_dict_WrongKey(d) ==
    LET HRL == NpArrayF32(d["H_right_to_left"])
        HLC == NpArrayF32(d["H_left_to_canvas"])
    IN  IF ~HRL.ok THEN HRL
        ELSE IF ~HLC.ok THEN HLC
        ELSE [ok |-> TRUE,
              calib |-> [H_right_to_left |-> HRL.arr,
                         out_size_wh |-> <<d["out_size_wh"].items[1].v,
                                           d["out_size_wh"].items[2].v>>,
                         H_left_to_canvas |-> HLC.arr,
                         H_right_to_canvas |-> HLC.arr,
                         feature |-> StrOf(DictGet(d, "feature", PyStr("sift"))),
                         ecc_motion |-> StrOf(DictGet(d, "ecc_motion", PyStr("translation"))),
                         ecc_cc |-> DictGet(d, "ecc_cc", NoneVal)]]

\* Calibration.from_json_dict, its arguments evaluated in order: a missing key
\* raises KeyError, a matrix np.array cannot build raises ValueError; nothing
\* looks at the shapes
from_json_dict(d) ==
    IF "H_right_to_left" \notin DOMAIN d THEN Err("KeyError")
    ELSE IF ~NpArrayF32(d["H_right_to_left"]).ok THEN Err("ValueError")
    ELSE IF "out_size_wh" \notin DOMAIN d THEN Err("KeyError")
    ELSE IF "H_left_to_canvas" \notin DOMAIN d THEN Err("KeyError")
    ELSE IF ~NpArrayF32(d["H_left_to_canvas"]).ok THEN Err("ValueError")
    ELSE IF "H_right_to_canvas" \notin DOMAIN d THEN Err("KeyError")
    ELSE IF ~NpArrayF32(d["H_right_to_canvas"]).ok THEN Err("ValueError")
    ELSE [ok |-> TRUE,
          calib |-> [H_right_to_left |-> NpArrayF32(d["H_right_to_left"]).arr,
                     out_size_wh |-> <<d["out_size_wh"].items[1].v,
                                       d["out_size_wh"].items[2].v>>,
                     H_left_to_canvas |-> NpArrayF32(d["H_left_to_canvas"]).arr,
                     H_right_to_canvas |-> NpArrayF32(d["H_right_to_canvas"]).arr,
                     feature |-> StrOf(DictGet(d, "feature", PyStr("sift"))),
                     ecc_motion |-> StrOf(DictGet(d, "ecc_motion", PyStr("translation"))),
                     ecc_cc |-> DictGet(d, "ecc_cc", NoneVal)]]

(* ----------------- specification of the calibration store --------------- *)
\* largest entry of a stored matrix
StoreMaxT == 2

\* the matrices a Calibration may hold: translations and two that are none
StoreMatrices ==
    { Translation(tx, ty) : tx \in -1 .. StoreMaxT, ty \in {0, 1} }
        \cup { <<<<2, 0, 1>>, <<0, 2, 0>>, <<0, 0, 1>>>>,
               <<<<1, 1, 0>>, <<0, 1, 0>>, <<1, 0, 1>>>> }

StoreCalibrations ==
    [H_right_to_left : StoreMatrices,
     out_size_wh : {<<4, 1>>, <<3, 2>>},
     H_left_to_canvas : StoreMatrices,
     H_right_to_canvas : StoreMatrices,
     feature : {"bruteforce_dx", "sift"},
     ecc_motion : {"translation"},
     ecc_cc : {NoneVal, PyFloat(1)}]

\* what a calibration file may hold for a matrix: a 3x3 matrix as written by
\* to_json_dict or by hand (ints), a 2x3 matrix, a 3x2 matrix, a flat list, a
\* matrix with a string entry, a ragged list
Row(a, b, c) == PyList(<<PyInt(a), PyInt(b), PyInt(c)>>)
FileMatrices ==
    { ToList(Translation(1, 0)),
      PyList(<<Row(1, 0, 2), Row(0, 1, 0), Row(0, 0, 1)>>),
      PyList(<<Row(1, 0, 2), Row(0, 1, 0)>>),
      PyList(<<PyList(<<PyInt(1), PyInt(0)>>), PyList(<<PyInt(0), PyInt(1)>>),
               PyList(<<PyInt(0), PyInt(0)>>)>>),
      PyList(<<PyInt(1), PyInt(0), PyInt(2)>>),
      PyList(<<PyList(<<PyInt(1), PyInt(0), PyStr("x")>>), Row(0, 1, 0), Row(0, 0, 1)>>),
      PyList(<<Row(1, 0, 2), PyList(<<PyInt(0), PyInt(1)>>), Row(0, 0, 1)>>) }

FileDicts ==
    UNION { { d, [k \in DOMAIN d \ {"feature", "ecc_motion", "ecc_cc"} |-> d[k]] } :
            d \in [H_right_to_left : FileMatrices,
                   out_size_wh : {PyList(<<PyInt(4), PyInt(1)>>)},
                   H_left_to_canvas : FileMatrices,
                   H_right_to_canvas : FileMatrices,
                   feature : {PyStr("bruteforce_dx")},
                   ecc_motion : {PyStr("translation")},
                   ecc_cc : {NoneVal}] }

StoreInit ==
    /\ SideIdle
    /\ DxIdle
    /\ ctx_shapes = Null /\ frame_left = Null /\ frame_right = Null
    /\ blend_ctx = Null /\ exposure_match = FALSE /\ joined = Null
    /\ loaded = Null
    /\ MainIdle
    /\ RansacIdle
    /\ \/ pc = "save" /\ calib \in StoreCalibrations /\ file = Null
       \/ pc = "load" /\ calib = Null /\ file \in { Dumps(d) : d \in FileDicts }

\* out_path.write_text(json.dumps(calib.to_json_dict(), ...))
Save ==
    /\ pc = "save"
    /\ file' = Dumps(to_json_dict(calib))
    /\ pc' = "load"
    /\ UNCHANGED <<sideVars, ransacVars, dxVars, blendVars, loaded, mainVars>>

\* Calibration.from_json_dict(json.loads(p.read_text(...)))
Load ==
    /\ pc = "load"
    /\ loaded' = from_json_dict(Loads(file))
    /\ pc' = "loaded"
    /\ UNCHANGED <<sideVars, ransacVars, dxVars, blendVars, file, mainVars>>

StoreNext == Save \/ Load

SpecStore == StoreInit /\ [][StoreNext]_vars

(* ----------------------- claims: calibration store ---------------------- *)
\* C4: serializing a Calibration with to_json_dict, through JSON text, and
\* reloading it with from_json_dict reproduces identical H_right_to_left,
\* H_left_to_canvas, H_right_to_canvas, out_size_wh, feature, ecc_motion, ecc_cc.
C4_RoundTrip ==
    (pc = "loaded" /\ calib # Null) =>
        /\ loaded.ok
        /\ loaded.calib.H_right_to_left = calib.H_right_to_left
        /\ loaded.calib.H_left_to_canvas = calib.H_left_to_canvas
        /\ loaded.calib.H_right_to_canvas = calib.H_right_to_canvas
        /\ loaded.calib.out_size_wh = calib.out_size_wh
        /\ loaded.calib.feature = calib.feature
        /\ loaded.calib.ecc_motion = calib.ecc_motion
        /\ loaded.calib.ecc_cc = calib.ecc_cc

\* C4 witness: a Calibration with three different matrices, one of them no
\* translation, and a correlation score, saved and reloaded.
C4_Witness ==
    /\ pc = "loaded" /\ calib # Null /\ loaded.ok
    /\ calib.H_left_to_canvas # calib.H_right_to_canvas
    /\ calib.H_right_to_left[1][1] = 2
    /\ calib.ecc_cc # NoneVal

\* a persisted matrix that is a 3x3 matrix of numbers
IsNumeric3x3(v) ==
    /\ v.t = "list" /\ Len(v.items) = 3
    /\ \A i \in 1 .. 3 :
          /\ v.items[i].t = "list" /\ Len(v.items[i].items) = 3
          /\ \A j \in 1 .. 3 : IsNum(v.items[i].items[j])

\* C10: loading fails, and yields no Calibration, when one of H_right_to_left,
\* H_left_to_canvas, H_right_to_canvas of the persisted form is not a 3x3 matrix
\* of numbers.
C10_LoadValidates ==
    (pc = "loaded" /\ calib = Null) =>
        LET d == Loads(file)
        IN  (\E k \in {"H_right_to_left", "H_left_to_canvas", "H_right_to_canvas"} :
                ~IsNumeric3x3(d[k]))
            => ~loaded.ok

(* ================================= main ================================== *)
\* int(round(num / den)) for num >= 0 and den > 0: Python rounds halves to even
RoundHalfEven(num, den) ==
    LET q == num \div den
        r == num % den
    IN  IF 2 * r < den THEN q
        ELSE IF 2 * r > den THEN q + 1
        ELSE IF q % 2 = 0 THEN q ELSE q + 1

\* the frame a camera delivers on its k-th read: its resolution may change
\* after the first cam.switch reads
FrameAt(cam, k) == IF k <= cam.switch THEN cam.first ELSE cam.later

\* a read that never raises
_read_frame_NoRaise(cam, k, ok) == [ok |-> TRUE, frame |-> FrameAt(cam, k)]

\* cap.read() for the k-th time: the frame, or RuntimeError when ok is false or
\* the frame is None
_read_frame(cam, k, ok) ==
    IF ok THEN [ok |-> TRUE, frame |-> FrameAt(cam, k)] ELSE Err("FrameReadFailure")

\* cv2.resize(img, (width, new_h), interpolation=cv2.INTER_AREA) for a width
\* that divides the image width: each pixel is the rounded mean of its block.
\* width = 0 stands for None.
_resize_by_width(img, width) ==
    IF width = 0 \/ img.w = width THEN img
    ELSE LET new_h == Max2(1, RoundHalfEven(img.h * width, img.w))
             fx == img.w \div width
             fy == img.h \div new_h
         IN  [h |-> new_h, w |-> width,
              px |-> [y \in 0 .. (new_h - 1) |-> [x \in 0 .. (width - 1) |->
                        RoundHalfEven(
                            SumRange([j \in 0 .. (fy - 1) |->
                                         SumRange([i \in 0 .. (fx - 1) |->
                                                      img.px[y * fy + j][x * fx + i]],
                                                  0, fx - 1)],
                                     0, fy - 1),
                            fx * fy)]]]

\* the image the search runs on: the frame resized to the search width (the
\* grey conversion, the blur and the Sobel filter keep the shape and are left out)
_prep_for_match(frame, resize_width) == _resize_by_width(frame, resize_width)

\* the k-th smallest of the values of a sequence
KthSmallest(vals, k) ==
    CHOOSE v \in { vals[i] : i \in DOMAIN vals } :
        /\ Cardinality({ i \in DOMAIN vals : vals[i] < v }) < k
        /\ Cardinality({ i \in DOMAIN vals : vals[i] <= v }) >= k

\* np.clip(np.median(stack, axis=0), 0, 255).astype(np.uint8) at one pixel
MedianPixel(vals) ==
    LET n == Len(vals) IN
    IF n % 2 = 1 THEN KthSmallest(vals, (n + 1) \div 2)
    ELSE (KthSmallest(vals, n \div 2) + KthSmallest(vals, n \div 2 + 1)) \div 2

\* np.clip(stack.astype(np.float32).mean(axis=0), 0, 255).astype(np.uint8)
MeanPixel(vals) == SumRange(vals, 1, Len(vals)) \div Len(vals)

\* left_match / right_match of a non-empty list of match images
Aggregate(list, aggregate) ==
    [h |-> list[1].h, w |-> list[1].w,
     px |-> [y \in Rows(list[1]) |-> [x \in Cols(list[1]) |->
               LET vals == [i \in DOMAIN list |-> list[i].px[y][x]]
               IN  IF aggregate = "mean" THEN MeanPixel(vals) ELSE MedianPixel(vals)]]]

\* fewest frame pairs a calibration needs
MinCalibFrames == 3

\* a collection check that accepts one pair fewer
TooFewFrames_OffByOne(n) == n < MinCalibFrames - 1

\* len(matchL_list) < 3
TooFewFrames(n) == n < MinCalibFrames

\* a canvas that is as wide as the left frame
ComposeCalibration_LeftWidth(dx_full, wL_full, hL_full, wR_full) ==
    [H_right_to_left |-> Translation(dx_full, 0),
     out_size_wh |-> <<wL_full, hL_full>>,
     H_left_to_canvas |-> Translation(0, 0),
     H_right_to_canvas |-> Translation(dx_full, 0),
     feature |-> "bruteforce_dx", ecc_motion |-> "translation", ecc_cc |-> NoneVal]

\* the Calibration composed from the full resolution translation
ComposeCalibration(dx_full, wL_full, hL_full, wR_full) ==
    LET min_x == Min2(0, dx_full)
        max_x == Max2(wL_full, dx_full + wR_full)
    IN  [H_right_to_left |-> Translation(dx_full, 0),
         out_size_wh |-> <<max_x - min_x, hL_full>>,
         H_left_to_canvas |-> Translation(-min_x, 0),
         H_right_to_canvas |-> Translation(dx_full - min_x, 0),
         feature |-> "bruteforce_dx", ecc_motion |-> "translation", ecc_cc |-> NoneVal]

\* the arguments calibrate_two_cameras hands to _estimate_dx_bruteforce
SearchArgs(a, wS) ==
    [min_pct |-> a.min_overlap_pct, max_pct |-> a.max_overlap_pct,
     dx_min |-> RoundHalfEven(a.dx_min_pct * wS, 100),
     dx_max |-> RoundHalfEven(a.dx_max_pct * wS, 100),
     dx_step |-> a.dx_step]

\* np.stack accepts a list of images of one shape
SameShapes(list) == \A i \in DOMAIN list : Shape(list[i]) = Shape(list[1])

\* calibrate_two_cameras after its collection loop
EstimateCalibration(mL, mR, last_full_L, last_full_R, a) ==
    IF TooFewFrames(Len(mL)) \/ last_full_L = Null \/ last_full_R = Null
    THEN Err("InsufficientFrames")
    ELSE IF ~SameShapes(mL) \/ ~SameShapes(mR) THEN Err("ValueError")
    ELSE LET lm == Aggregate(mL, a.aggregate)
             rm == Aggregate(mR, a.aggregate)
             sa == SearchArgs(a, lm.w)
             r == EstimateDxBruteforce(lm, rm, sa)
         IN  IF ~r.ok THEN r
             ELSE IF Shape(last_full_L) # Shape(last_full_R) THEN Err("ResolutionMismatch")
             ELSE [ok |-> TRUE,
                   calib |-> ComposeCalibration(
                                 RoundHalfEven(r.dx * last_full_L.w, lm.w),
                                 last_full_L.w, last_full_L.h, last_full_R.w),
                   left_match |-> lm, right_match |-> rm, dx_args |-> sa, dx_result |-> r]

(* ------------------------ specification of main ------------------------ *)
\* half the width of a camera frame, the width the search may be resized to
CamHalfW == 2
CamW == 2 * CamHalfW

\* largest --calib_max_frames and largest --calib_seconds
MaxFrames == 4
MaxSeconds == 2

\* the scene in front of the cameras, by column
ScenePixel(i) == (30 * i + 10 * (i % 2)) % 256

\* the frame of a camera of height h whose first column shows scene column d
CamFrame(h, d) ==
    [h |-> h, w |-> CamW,
     px |-> [y \in 0 .. (h - 1) |-> [x \in 0 .. (CamW - 1) |-> ScenePixel(x + d)]]]

\* a camera that keeps its resolution
StaticCam(frame) == [first |-> frame, later |-> frame, switch |-> 0]

\* the left camera shows the scene from column 0, the right one from column d;
\* either camera may have another resolution than the other, and the right one
\* may change its resolution after its first or second frame
Cameras ==
    { [L |-> StaticCam(CamFrame(hl, 0)), R |-> StaticCam(CamFrame(hr, d))] :
      hl \in {1, 2}, hr \in {1, 2}, d \in {0, 1, CamW - 1} }
        \cup { [L |-> StaticCam(CamFrame(1, 0)),
                R |-> [first |-> CamFrame(2, 1), later |-> CamFrame(1, 1), switch |-> n]] :
               n \in {1, 2} }

\* the search options: the defaults of main, and a search over every dx
SearchOptions ==
    { [min_overlap_pct |-> 8, max_overlap_pct |-> 40, dx_min_pct |-> 60, dx_max_pct |-> 92],
      [min_overlap_pct |-> 10, max_overlap_pct |-> 100, dx_min_pct |-> 0, dx_max_pct |-> 100] }

CalibArgs ==
    { [load_calib |-> FALSE, calib_seconds |-> cs, calib_max_frames |-> mf,
       calib_resize_width |-> rw, aggregate |-> ag,
       min_overlap_pct |-> so.min_overlap_pct, max_overlap_pct |-> so.max_overlap_pct,
       dx_min_pct |-> so.dx_min_pct, dx_max_pct |-> so.dx_max_pct, dx_step |-> 1,
       exposure_match |-> em] :
      cs \in 0 .. MaxSeconds, mf \in {0, 1, 3, MaxFrames}, rw \in {0, CamHalfW},
      ag \in {"median", "mean"}, so \in SearchOptions, em \in BOOLEAN }

LoadArgs == { [a EXCEPT !.load_calib = TRUE] : a \in { b \in CalibArgs :
                  /\ b.calib_seconds = MaxSeconds /\ b.calib_max_frames = MaxFrames
                  /\ b.calib_resize_width = 0 /\ b.aggregate = "median"
                  /\ b.dx_min_pct = 60 } }

\* the calibration files --load_calib may name: written by a former run, written
\* by hand with integers, one that flips the right frame upside down, one whose
\* matrices have two rows, one without the canvas matrices
MainFiles ==
    { Dumps(to_json_dict(ComposeCalibration(dx, CamW, 1, CamW))) : dx \in {1, CamW - 1} }
        \cup { Dumps([H_right_to_left |-> m, out_size_wh |-> PyList(<<PyInt(CamW + 2), PyInt(1)>>),
                      H_left_to_canvas |-> PyList(<<Row(1, 0, 0), Row(0, 1, 0), Row(0, 0, 1)>>),
                      H_right_to_canvas |-> m]) :
               m \in { PyList(<<Row(1, 0, 2), Row(0, 1, 0), Row(0, 0, 1)>>),
                       PyList(<<Row(1, 0, 2), Row(0, -1, 0), Row(0, 0, 1)>>),
                       PyList(<<Row(1, 0, 2), Row(0, 1, 0)>>) } }
        \cup { Dumps([H_right_to_left |-> PyList(<<Row(1, 0, 2), Row(0, 1, 0), Row(0, 0, 1)>>),
                      out_size_wh |-> PyList(<<PyInt(CamW + 2), PyInt(1)>>)]) }

MainInit ==
    /\ SideIdle
    /\ pc = "start"
    /\ DxIdle
    /\ ctx_shapes = Null /\ frame_left = Null /\ frame_right = Null /\ calib = Null
    /\ blend_ctx = Null /\ joined = Null
    /\ loaded = Null
    /\ cams \in Cameras
    /\ \/ args \in CalibArgs /\ file = Null
       \/ args \in LoadArgs /\ file \in MainFiles
    /\ exposure_match = args.exposure_match
    /\ now = 0 /\ start = 0
    /\ matchL_list = <<>> /\ matchR_list = <<>> /\ estimated = Null /\ error = Null
    /\ reads = [L |-> 0, R |-> 0] /\ failed_cam = "none"
    /\ RansacIdle

\* an exception leaves main through its finally block
Abort(e) == pc' = "aborted" /\ error' = e

\* frameL = _read_frame(capL); frameR = _read_frame(capR): the right camera is
\* read when the left read has returned
ReadPair(okL, okR) ==
    LET rl == _read_frame(cams.L, reads.L + 1, okL) IN
    IF ~rl.ok THEN [ok |-> FALSE, err |-> rl, reads |-> [reads EXCEPT !.L = @ + 1]]
    ELSE LET rr == _read_frame(cams.R, reads.R + 1, okR) IN
         IF ~rr.ok
         THEN [ok |-> FALSE, err |-> rr, reads |-> [L |-> reads.L + 1, R |-> reads.R + 1]]
         ELSE [ok |-> TRUE, left |-> rl.frame, right |-> rr.frame,
               reads |-> [L |-> reads.L + 1, R |-> reads.R + 1]]

\* the camera whose cap.read() reported a failure
FailedCam(okL, okR) == IF ~okL THEN "L" ELSE IF ~okR THEN "R" ELSE "none"

\* frameL0 = _read_frame(capL); frameR0 = _read_frame(capR)
ReadFirst ==
    /\ pc = "start"
    /\ \E okL \in BOOLEAN, okR \in BOOLEAN :
          LET p == ReadPair(okL, okR)
          IN  /\ reads' = p.reads
              /\ failed_cam' = FailedCam(okL, okR)
              /\ IF ~p.ok
                 THEN Abort(p.err) /\ UNCHANGED <<ctx_shapes, frame_left, frame_right>>
                 ELSE /\ frame_left' = p.left /\ frame_right' = p.right
                      /\ ctx_shapes' = <<Shape(p.left), Shape(p.right)>>
                      /\ pc' = IF args.load_calib THEN "load" ELSE "calibrate"
                      /\ UNCHANGED error
    /\ UNCHANGED <<sideVars, ransacVars, dxVars, calib, blend_ctx, exposure_match, joined, storeVars,
                   args, cams, now, start, matchL_list, matchR_list, estimated>>

\* calib = Calibration.from_json_dict(json.loads(p.read_text(...)))
LoadCalib ==
    /\ pc = "load"
    /\ LET r == from_json_dict(Loads(file))
       IN  /\ loaded' = r
           /\ IF r.ok
              THEN calib' = r.calib /\ pc' = "build_ctx" /\ UNCHANGED error
              ELSE Abort(r) /\ UNCHANGED calib
    /\ UNCHANGED <<sideVars, ransacVars, dxVars, ctx_shapes, frame_left, frame_right, blend_ctx,
                   exposure_match, joined, file,
                   args, cams, now, start, matchL_list, matchR_list, estimated,
                   reads, failed_cam>>

\* calibrate_two_cameras is entered: start = time.time()
CalibStart ==
    /\ pc = "calibrate"
    /\ start' = now
    /\ matchL_list' = <<>> /\ matchR_list' = <<>>
    /\ pc' = "collect"
    /\ UNCHANGED <<sideVars, ransacVars, dxVars, blendVars, storeVars, args, cams, now, estimated, error,
                   reads, failed_cam>>

\* a collection turn that never looks at the clock
CollectPair_NoTimeLimit ==
    /\ pc = "collect"
    /\ \E okL \in BOOLEAN, okR \in BOOLEAN, dt \in {0, 1} :
          LET p == ReadPair(okL, okR)
              n == Len(matchL_list) + 1
          IN  /\ reads' = p.reads
              /\ failed_cam' = FailedCam(okL, okR)
              /\ IF ~p.ok
                 THEN /\ Abort(p.err)
                      /\ UNCHANGED <<frame_left, frame_right, matchL_list, matchR_list, now>>
                 ELSE /\ frame_left' = p.left /\ frame_right' = p.right
                      /\ matchL_list' = Append(matchL_list,
                                               _prep_for_match(p.left, args.calib_resize_width))
                      /\ matchR_list' = Append(matchR_list,
                                               _prep_for_match(p.right, args.calib_resize_width))
                      /\ now' = now + dt
                      /\ pc' = IF n >= args.calib_max_frames THEN "estimate" ELSE "collect"
                      /\ UNCHANGED error
    /\ UNCHANGED <<sideVars, ransacVars, dxVars, ctx_shapes, calib, blend_ctx, exposure_match, joined, storeVars,
                   args, cams, start, estimated>>

\* one turn of the collection loop; dt is the time the turn took
CollectPair ==
    /\ pc = "collect"
    /\ \E okL \in BOOLEAN, okR \in BOOLEAN, dt \in {0, 1} :
          LET p == ReadPair(okL, okR)
              n == Len(matchL_list) + 1
          IN  /\ reads' = p.reads
              /\ failed_cam' = FailedCam(okL, okR)
              /\ IF ~p.ok
                 THEN /\ Abort(p.err)
                      /\ UNCHANGED <<frame_left, frame_right, matchL_list, matchR_list, now>>
                 ELSE /\ frame_left' = p.left /\ frame_right' = p.right
                      /\ matchL_list' = Append(matchL_list,
                                               _prep_for_match(p.left, args.calib_resize_width))
                      /\ matchR_list' = Append(matchR_list,
                                               _prep_for_match(p.right, args.calib_resize_width))
                      /\ now' = now + dt
                      /\ pc' = IF n >= args.calib_max_frames THEN "estimate"
                               ELSE IF (now + dt) - start >= args.calib_seconds THEN "estimate"
                               ELSE "collect"
                      /\ UNCHANGED error
    /\ UNCHANGED <<sideVars, ransacVars, dxVars, ctx_shapes, calib, blend_ctx, exposure_match, joined, storeVars,
                   args, cams, start, estimated>>

\* calibrate_two_cameras from the end of its loop to its return
Estimate ==
    /\ pc = "estimate"
    /\ LET r == EstimateCalibration(matchL_list, matchR_list, frame_left, frame_right, args)
       IN  IF r.ok
           THEN /\ estimated' = r.calib /\ calib' = r.calib
                /\ left_match' = r.left_match /\ right_match' = r.right_match
                /\ dx_args' = r.dx_args /\ dx_result' = r.dx_result
                /\ pc' = "save" /\ UNCHANGED error
           ELSE /\ Abort(r)
                /\ UNCHANGED <<estimated, calib, dxVars>>
    /\ UNCHANGED <<sideVars, ransacVars, ctx_shapes, frame_left, frame_right, blend_ctx, exposure_match, joined,
                   storeVars, args, cams, now, start, matchL_list, matchR_list,
                   reads, failed_cam>>

\* a save after which main keeps the Calibration it holds in memory
SaveCalib_NoReload ==
    /\ pc = "save"
    /\ file' = Dumps(to_json_dict(calib))
    /\ pc' = "build_ctx"
    /\ UNCHANGED <<sideVars, ransacVars, dxVars, blendVars, loaded, mainVars>>

\* out_path.write_text(json.dumps(calib.to_json_dict(), ...))
SaveCalib ==
    /\ pc = "save"
    /\ file' = Dumps(to_json_dict(calib))
    /\ pc' = "reload"
    /\ UNCHANGED <<sideVars, ransacVars, dxVars, blendVars, loaded, mainVars>>

\* calib = Calibration.from_json_dict(json.loads(out_path.read_text(...)))
ReloadCalib ==
    /\ pc = "reload"
    /\ LET r == from_json_dict(Loads(file))
       IN  /\ loaded' = r
           /\ IF r.ok
              THEN calib' = r.calib /\ pc' = "build_ctx" /\ UNCHANGED error
              ELSE Abort(r) /\ UNCHANGED calib
    /\ UNCHANGED <<sideVars, ransacVars, dxVars, ctx_shapes, frame_left, frame_right, blend_ctx,
                   exposure_match, joined, file,
                   args, cams, now, start, matchL_list, matchR_list, estimated,
                   reads, failed_cam>>

\* a matrix cv2.warpPerspective accepts
IsMat3x3(H) == Len(H) = 3 /\ \A i \in 1 .. 3 : Len(H[i]) = 3

\* blend_ctx = build_blend_context(frameL0.shape[:2], frameR0.shape[:2], calib)
MainBuildCtx ==
    /\ pc = "build_ctx"
    /\ IF IsMat3x3(calib.H_left_to_canvas) /\ IsMat3x3(calib.H_right_to_canvas)
       THEN /\ blend_ctx' = build_blend_context(ctx_shapes[1], ctx_shapes[2], calib)
            /\ pc' = "render" /\ UNCHANGED error
       ELSE Abort(Err("cv2.error")) /\ UNCHANGED blend_ctx
    /\ UNCHANGED <<sideVars, ransacVars, dxVars, ctx_shapes, frame_left, frame_right, calib, exposure_match,
                   joined, storeVars,
                   args, cams, now, start, matchL_list, matchR_list, estimated,
                   reads, failed_cam>>

\* most frames a camera is asked for in a run
MaxReads == 7

\* a render turn whose blend writes its product into the shared weight array
RenderFrame_InPlace ==
    /\ pc = "render"
    /\ reads.L < MaxReads
    /\ \E okL \in BOOLEAN, okR \in BOOLEAN :
          LET p == ReadPair(okL, okR)
          IN  /\ reads' = p.reads
              /\ failed_cam' = FailedCam(okL, okR)
              /\ IF ~p.ok
                 THEN Abort(p.err) /\ UNCHANGED <<frame_left, frame_right, joined, blend_ctx>>
                 ELSE /\ frame_left' = p.left /\ frame_right' = p.right
                      /\ joined' = render_joined_frame_with_context(
                                       p.left, p.right, calib, blend_ctx, exposure_match)
                      /\ blend_ctx' = [blend_ctx EXCEPT !.wL3 = blend_ctx.wR3]
                      /\ pc' = "render" /\ UNCHANGED error
    /\ UNCHANGED <<sideVars, ransacVars, dxVars, ctx_shapes, calib, exposure_match, storeVars,
                   args, cams, now, start, matchL_list, matchR_list, estimated>>

\* one turn of the render loop
RenderFrame ==
    /\ pc = "render"
    /\ reads.L < MaxReads
    /\ \E okL \in BOOLEAN, okR \in BOOLEAN :
          LET p == ReadPair(okL, okR)
          IN  /\ reads' = p.reads
              /\ failed_cam' = FailedCam(okL, okR)
              /\ IF ~p.ok
                 THEN Abort(p.err) /\ UNCHANGED <<frame_left, frame_right, joined>>
                 ELSE /\ frame_left' = p.left /\ frame_right' = p.right
                      /\ joined' = render_joined_frame_with_context(
                                       p.left, p.right, calib, blend_ctx, exposure_match)
                      /\ pc' = "render" /\ UNCHANGED error
    /\ UNCHANGED <<sideVars, ransacVars, dxVars, ctx_shapes, calib, blend_ctx, exposure_match, storeVars,
                   args, cams, now, start, matchL_list, matchR_list, estimated>>

\* the ESC key ends the render loop
Quit ==
    /\ pc = "render"
    /\ joined # Null
    /\ pc' = "done"
    /\ UNCHANGED <<sideVars, ransacVars, dxVars, blendVars, storeVars, mainVars>>

Next ==
    \/ ReadFirst \/ LoadCalib \/ CalibStart \/ CollectPair \/ Estimate
    \/ SaveCalib \/ ReloadCalib \/ MainBuildCtx \/ RenderFrame \/ Quit

Spec == MainInit /\ [][Next]_vars

(* ---------------------------- claims: calibrate ------------------------- *)
\* the collection loop was left by one of its two breaks: the run is past the
\* loop, and no frame read ended it
LoopLeft ==
    /\ ~args.load_calib
    /\ pc \notin {"start", "calibrate", "collect"}
    /\ pc = "aborted" => error # Err("FrameReadFailure")

\* C9: when the collection loop ends with fewer than 3 frame pairs, whether by
\* the time budget or by the maximum frame count, calibrate_two_cameras fails
\* with InsufficientFrames; with fewer than 3 pairs collected no Calibration is
\* ever returned, so a returned Calibration has at least 3 pairs behind it.
C9_InsufficientFrames ==
    /\ (LoopLeft /\ pc # "estimate" /\ Len(matchL_list) < 3)
           => (pc = "aborted" /\ error = Err("InsufficientFrames"))
    /\ Len(matchL_list) < 3 => (estimated = Null /\ pc \notin {"save", "reload"})
    /\ estimated # Null => (Len(matchL_list) >= 3 /\ Len(matchR_list) >= 3)

\* C9 witness: the time budget elapsed after two pairs although more frames
\* were allowed, and the calibration failed.
C9_Witness ==
    /\ pc = "aborted" /\ error = Err("InsufficientFrames")
    /\ Len(matchL_list) = 2 /\ args.calib_max_frames >= 3
    /\ now - start >= args.calib_seconds

(* ====================== _estimate_translation_ransac ===================== *)
\* fewest matches _detect_and_match and the fit accept, fewest inliers of a fit
MinMatches == 12
MinInliers == 8

\* np.linalg.norm(d - t) ** 2
SqDist(d, t) == (d.x - t.x) * (d.x - t.x) + (d.y - t.y) * (d.y - t.y)

\* an inlier test that keeps the far displacements
IsInlier_Inverted(d, t) == SqDist(d, t) >= 3 * 3

\* err < thresh, thresh = 3.0
IsInlier(d, t) == SqDist(d, t) < 3 * 3

\* a loop that always uses its whole budget
ExceedsEarlyExit_Never(c, n) == FALSE

\* c > 0.8 * diffs.shape[0]
ExceedsEarlyExit(c, n) == 10 * c > 8 * n

\* np.median of a non-empty sequence of integers, as a fraction
MedianFrac(vals) ==
    LET n == Len(vals) IN
    IF n % 2 = 1 THEN [num |-> KthSmallest(vals, (n + 1) \div 2), den |-> 1]
    ELSE [num |-> KthSmallest(vals, n \div 2) + KthSmallest(vals, n \div 2 + 1), den |-> 2]

\* the members of a set of indices in increasing order
RECURSIVE SeqOfSet(_)
SeqOfSet(S) ==
    IF S = {} THEN <<>>
    ELSE LET m == CHOOSE a \in S : \A b \in S : a <= b
         IN  <<m>> \o SeqOfSet(S \ {m})

\* lines 174-180: the median displacement over the best inlier set, or the raise;
\* an inlier mask is held as the record of its indices
RansacResult(d, inliers, count) ==
    IF inliers = Null \/ count < MinInliers THEN Err("UnstableRansac")
    ELSE LET idx == SeqOfSet(inliers.idx)
         IN  [ok |-> TRUE,
              tx |-> MedianFrac([k \in DOMAIN idx |-> d[idx[k]].x]),
              ty |-> MedianFrac([k \in DOMAIN idx |-> d[idx[k]].y]),
              n_good |-> Len(d), best_count |-> count]

(* ---------------------- specification of the fit ----------------------- *)
\* the iterations the loop may run (iters, 5000 in the source) and the most
\* outliers among the displacements
RansacIters == 3
MaxOutliers == 2

\* the translation most displacements share, and the others: one at distance 2,
\* one at distance 3, one far away
TrueT == [x |-> 12, y |-> -3]
OutlierValues == { [x |-> 14, y |-> -3], [x |-> 15, y |-> -3], [x |-> 40, y |-> 40] }

\* the outliers come first; which displacement the generator draws is free, so
\* their position loses nothing
SharedDisplacements ==
    UNION { { [i \in 1 .. n |-> IF i <= k THEN outs[i] ELSE TrueT] :
              outs \in [1 .. k -> OutlierValues] } :
            n \in {MinMatches, 20}, k \in 0 .. MaxOutliers }

\* matches that split into two clusters, neither above 80%: a far outlier, then
\* 9 displacements at SecondT and 10 at TrueT; and 12 matches with 8 at TrueT
SecondT == [x |-> 25, y |-> 4]
TwoClusters ==
    { [i \in 1 .. 20 |-> IF i = 1 THEN [x |-> 40, y |-> 40]
                         ELSE IF i = 2 \/ i \in 4 .. 11 THEN SecondT ELSE TrueT],
      [i \in 1 .. 12 |-> IF i = 1 THEN [x |-> 40, y |-> 40]
                         ELSE IF i = 2 \/ i \in 4 .. 5 THEN SecondT ELSE TrueT] }

Displacements == SharedDisplacements \cup TwoClusters

\* rng.integers(0, n): an outlier's index or the index of a displacement equal
\* to TrueT
DrawIndices == 0 .. MaxOutliers

RansacInit ==
    /\ SideIdle
    /\ pc = "ransac_enter"
    /\ DxIdle /\ BlendIdle /\ StoreIdle /\ MainIdle
    /\ diffs \in Displacements
    /\ seed_draws \in [1 .. RansacIters -> DrawIndices]
    /\ rng = Null /\ first_run = Null
    /\ best_count = -1 /\ best_inliers = Null /\ sampled = <<>> /\ fit = Null

\* a fit that goes on with the generator the call before left behind
RansacEnter_AmbientGenerator ==
    /\ pc = "ransac_enter"
    /\ IF Len(diffs) < MinMatches
       THEN fit' = Err("InsufficientMatches") /\ pc' = "ransac_done"
       ELSE fit' = fit /\ pc' = "ransac_loop"
    /\ rng' = IF first_run = Null THEN seed_draws ELSE rng \o seed_draws
    /\ best_count' = -1 /\ best_inliers' = Null
    /\ UNCHANGED <<sideVars, dxVars, blendVars, storeVars, mainVars, diffs, sampled,
                   seed_draws, first_run>>

\* lines 152-160: every call makes its generator anew from the seed 0
RansacEnter ==
    /\ pc = "ransac_enter"
    /\ IF Len(diffs) < MinMatches
       THEN fit' = Err("InsufficientMatches") /\ pc' = "ransac_done"
       ELSE fit' = fit /\ pc' = "ransac_loop"
    /\ rng' = seed_draws
    /\ best_count' = -1 /\ best_inliers' = Null
    /\ UNCHANGED <<sideVars, dxVars, blendVars, storeVars, mainVars, diffs, sampled,
                   seed_draws, first_run>>

\* one iteration of the loop of lines 162-172
RansacIter ==
    /\ pc = "ransac_loop"
    /\ LET i == Head(rng)
           t == diffs[i + 1]
           inliers == { j \in DOMAIN diffs : IsInlier(diffs[j], t) }
           c == Cardinality(inliers)
           last == Len(sampled) + 1 = RansacIters
       IN  /\ rng' = Tail(rng)
           /\ sampled' = Append(sampled, i)
           /\ IF c > best_count
              THEN /\ best_count' = c /\ best_inliers' = [idx |-> inliers]
                   /\ pc' = IF ExceedsEarlyExit(c, Len(diffs)) \/ last
                            THEN "ransac_end" ELSE "ransac_loop"
              ELSE /\ UNCHANGED <<best_count, best_inliers>>
                   /\ pc' = IF last THEN "ransac_end" ELSE "ransac_loop"
    /\ UNCHANGED <<sideVars, dxVars, blendVars, storeVars, mainVars, diffs, fit, seed_draws, first_run>>

\* lines 174-180
RansacFinish ==
    /\ pc = "ransac_end"
    /\ fit' = RansacResult(diffs, best_inliers, best_count)
    /\ pc' = "ransac_done"
    /\ UNCHANGED <<sideVars, dxVars, blendVars, storeVars, mainVars,
                   diffs, rng, best_count, best_inliers, sampled, seed_draws, first_run>>

\* the fit is called a second time on the same matched points
RansacAgain ==
    /\ pc = "ransac_done"
    /\ first_run = Null
    /\ first_run' = [sampled |-> sampled, fit |-> fit]
    /\ sampled' = <<>> /\ fit' = Null
    /\ pc' = "ransac_enter"
    /\ UNCHANGED <<sideVars, dxVars, blendVars, storeVars, mainVars,
                   diffs, rng, best_count, best_inliers, seed_draws>>

RansacNext == RansacEnter \/ RansacIter \/ RansacFinish \/ RansacAgain

SpecRansac == RansacInit /\ [][RansacNext]_vars

(* ------------------------------ claims: fit ----------------------------- *)
\* the displacements equal to the true translation
TrueInliers == { j \in DOMAIN diffs : diffs[j] = TrueT }

\* at least 90% of the displacements share the true translation
Share90 == 10 * Cardinality(TrueInliers) >= 9 * Len(diffs)

\* the fit returned a translation within the inlier threshold of the true one
\* and an inlier count of at least the true inliers
FitRecovers ==
    /\ fit.ok
    /\ fit.tx.den = fit.ty.den
    /\ (fit.tx.num - TrueT.x * fit.tx.den) * (fit.tx.num - TrueT.x * fit.tx.den)
         + (fit.ty.num - TrueT.y * fit.ty.den) * (fit.ty.num - TrueT.y * fit.ty.den)
         < 3 * 3 * fit.tx.den * fit.tx.den
    /\ fit.best_count >= Cardinality(TrueInliers)

\* one of the sampled hypotheses lies within the threshold of the true translation
WithinThreshold(d) == SqDist(d, TrueT) < 3 * 3
SampledNearTrue == \E k \in DOMAIN sampled : WithinThreshold(diffs[sampled[k] + 1])

EccMinPx == 5000
EccKernel == 11

\* right_valid = cv2.warpAffine(ones, warp, (w, h), INTER_NEAREST, borderValue=0)
\* for a translation by whole pixels: the pixel (x, y) is valid when
\* (x - tx, y - ty) lies in the image. The all-255 image under a translation is
\* a set of columns times a set of rows.
ValidCols(w, tx) == { x \in 0 .. (w - 1) : (x - tx) \in 0 .. (w - 1) }
ValidRows(h, ty) == { y \in 0 .. (h - 1) : (y - ty) \in 0 .. (h - 1) }

\* cv2.erode with the EccKernel x EccKernel kernel of ones: a position stays when
\* every position of the image within the kernel around it is valid (positions
\* outside the image do not erode); the square kernel keeps columns and rows apart
Erode1D(valid, n) ==
    LET r == (EccKernel - 1) \div 2
    IN  { a \in 0 .. (n - 1) : \A d \in (0 - r) .. r : (a + d) \in 0 .. (n - 1) => (a + d) \in valid }

\* lines 260-269 and 282: overlap_px = int(mask.sum() // 255)
EccOverlapPx(h, w, tx, ty) ==
    Cardinality(Erode1D(ValidCols(w, tx), w)) * Cardinality(Erode1D(ValidRows(h, ty), h))

\* a smallest overlap that only looks at the frame area
EccMinOverlapPx_AreaOnly(h, w) == (h * w) \div 100

\* line 283: min_overlap_px = max(5000, int(0.01 * h * w))
EccMinOverlapPx(h, w) == Max2(EccMinPx, (h * w) \div 100)

\* the calls the fit is tried on: a small frame whose area does not matter, a
\* frame of 1% = 5000 + 80, and a 720p frame; shifts that leave a wide, a narrow
\* and no overlap
EccShapes == { <<60, 100>>, <<508, 1000>>, <<720, 1280>> }
EccInputs ==
    UNION { { [h |-> sh[1], w |-> sh[2], tx |-> tx, ty |-> ty, motion |-> m] :
              tx \in { 0, 3, 20, sh[2] - 30, sh[2] - 25, sh[2] - 12, sh[2] + 5, 0 - 20 },
              ty \in { 0, 2, 0 - 2 },
              m \in { "translation", "affine" } } : sh \in EccShapes }

\* what cv2.findTransformECC may give back: a correlation and a translation
\* near the initial one
EccOutcomes ==
    { [raised |-> FALSE, cc |-> c, dtx |-> d] : c \in {50, 99}, d \in {0 - 1, 0, 1} }
        \cup { [raised |-> TRUE] }

EccInit ==
    /\ pc = "ecc_enter"
    /\ DxIdle /\ BlendIdle /\ StoreIdle /\ MainIdle /\ RansacIdle
    /\ WsIdle /\ SseIdle /\ scale_in = Null /\ scale_out = Null
    /\ ecc_in \in EccInputs
    /\ ecc_overlap_px = -1 /\ ecc_solver = "not_run" /\ ecc_result = Null

\* lines 273-282: the motion test, the blurs, the mask and its pixel count
EccMask ==
    /\ pc = "ecc_enter"
    /\ IF ecc_in.motion # "translation"
       THEN /\ ecc_result' = Err("ValueError") /\ pc' = "ecc_done"
            /\ UNCHANGED ecc_overlap_px
       ELSE /\ ecc_overlap_px' = EccOverlapPx(ecc_in.h, ecc_in.w, ecc_in.tx, ecc_in.ty)
            /\ pc' = "ecc_check" /\ UNCHANGED ecc_result
    /\ UNCHANGED <<dxVars, blendVars, storeVars, mainVars, ransacVars, wsVars, sseVars, scaleVars,
                   ecc_in, ecc_solver>>

\* lines 283-285: the raise on a small overlap
EccCheck ==
    /\ pc = "ecc_check"
    /\ IF ecc_overlap_px < EccMinOverlapPx(ecc_in.h, ecc_in.w)
       THEN ecc_result' = Err("OverlapTooSmall") /\ pc' = "ecc_done"
       ELSE pc' = "ecc_solve" /\ UNCHANGED ecc_result
    /\ UNCHANGED <<dxVars, blendVars, storeVars, mainVars, ransacVars, wsVars, sseVars, scaleVars,
                   ecc_in, ecc_overlap_px, ecc_solver>>

\* lines 286-299: the solver returns (cc, warp), or raises cv2.error, which is
\* raised again as the RuntimeError of an optimisation that failed
EccSolve ==
    /\ pc = "ecc_solve"
    /\ \E o \in EccOutcomes :
          IF o.raised
          THEN ecc_solver' = "raised" /\ ecc_result' = Err("RefinementFailed")
          ELSE /\ ecc_solver' = "returned"
               /\ ecc_result' = [ok |-> TRUE, cc |-> o.cc,
                                 tx |-> ecc_in.tx + o.dtx, ty |-> ecc_in.ty]
    /\ pc' = "ecc_done"
    /\ UNCHANGED <<dxVars, blendVars, storeVars, mainVars, ransacVars, wsVars, sseVars, scaleVars,
                   ecc_in, ecc_overlap_px>>

EccNext == EccMask \/ EccCheck \/ EccSolve

SpecEcc == EccInit /\ [][EccNext]_vars

(* ------------------------- claims: the refinement ----------------------- *)
\* the columns a shift by t leaves of a side of n pixels, less the five next to
\* the part the shift uncovered
KeptSide(n, t) ==
    LET a == IF t < 0 THEN 0 - t ELSE t
    IN  IF a = 0 THEN n ELSE Max2(0, n - a - 5)

\* the pixels of the overlap mask, and the fewest the refinement accepts
MaskPixels == KeptSide(ecc_in.w, ecc_in.tx) * KeptSide(ecc_in.h, ecc_in.ty)
FewestPixels ==
    IF ecc_in.h * ecc_in.w >= 500000 THEN (ecc_in.h * ecc_in.w) \div 100 ELSE 5000

\* C24: the refinement fails with OverlapTooSmall, the solver not having run,
\* whenever the overlap mask of the initial translation holds fewer than
\* max(5000, 1% of the frame area) pixels; the solver runs only when the mask
\* holds at least that many; and a failure of the solver is reported as
\* RefinementFailed, not answered with a translation.
C24_RefinementGuards ==
    /\ ecc_solver # "not_run" => MaskPixels >= FewestPixels
    /\ pc = "ecc_solve" => MaskPixels >= FewestPixels
    /\ (pc = "ecc_done" /\ ecc_in.motion = "translation") =>
          /\ MaskPixels < FewestPixels =>
                (ecc_result = Err("OverlapTooSmall") /\ ecc_solver = "not_run")
          /\ MaskPixels >= FewestPixels => ecc_solver # "not_run"
          /\ ecc_solver = "raised" => ecc_result = Err("RefinementFailed")
          /\ ecc_solver = "returned" => ecc_result.ok

\* C24 witness: on the 720p frame an overlap of more than 5000 pixels but less
\* than 1% of the area was refused without the solver.
C24_Witness ==
    /\ pc = "ecc_done" /\ ecc_result = Err("OverlapTooSmall") /\ ecc_solver = "not_run"
    /\ ecc_overlap_px > 5000 /\ ecc_overlap_px < (ecc_in.h * ecc_in.w) \div 100

(* ------------------------ relay_server: the relay ----------------------- *)
\* asyncio runs one task at a time and changes task at an await that
\* suspends: the send of a message and the wait for the next one. The lock of
\* the hub is never held across an await, so acquiring it never suspends.
RelayInit ==
    /\ pc = "relay"
    /\ DxIdle /\ BlendIdle /\ StoreIdle /\ MainIdle /\ RansacIdle
    /\ EccIdle /\ SseIdle /\ scale_in = Null /\ scale_out = Null
    /\ WsIdle

\* a client connects and handler(ws) runs up to the send of the hello:
\* register adds the connection to hub._clients
WsConnect(c) ==
    /\ ws_task[c].at = "new"
    /\ ws_open' = ws_open \cup {c}
    /\ ws_clients' = ws_clients \cup {c}
    /\ ws_task' = [ws_task EXCEPT ![c].at = "hello"]
    /\ UNCHANGED <<relayRest, ws_msgs, ws_sent>>

\* await ws.send(hello) is over, whether it failed or not; the handler waits
\* for a message
WsHello(c) ==
    /\ ws_task[c].at = "hello"
    /\ ws_task' = [ws_task EXCEPT ![c].at = "recv"]
    /\ UNCHANGED <<relayRest, ws_clients, ws_open, ws_msgs, ws_sent>>

\* the handler gets a message: text that is no JSON (or bytes that are no
\* UTF-8) is skipped; msg.get("type", "") raises AttributeError on JSON that is
\* not an object, which leaves the handler through its finally block;
\* takeuchi-status is skipped; anything else enters hub.broadcast, which copies
\* the client set and returns when it is empty
WsReceive(c) ==
    /\ ws_task[c].at = "recv"
    /\ c \in ws_open
    /\ Len(ws_msgs) < WsMaxMsgs
    /\ \E raw \in { [valid |-> FALSE, t |-> "", type |-> ""],
                    [valid |-> TRUE, t |-> "array", type |-> ""],
                    [valid |-> TRUE, t |-> "object", type |-> ""],
                    [valid |-> TRUE, t |-> "object", type |-> "takeuchi-status"],
                    [valid |-> TRUE, t |-> "object", type |-> "moji-data"] } :
          LET m == Len(ws_msgs) + 1
              outcome == IF ~raw.valid THEN "skipped"
                         ELSE IF raw.t # "object" THEN "raised"
                         ELSE IF raw.type = "takeuchi-status" THEN "skipped"
                         ELSE IF ws_clients = {} THEN "no_clients"
                         ELSE "broadcast"
          IN  /\ ws_msgs' = Append(ws_msgs, [from |-> c, raw |-> raw, clients |-> ws_clients,
                                            outcome |-> outcome])
              /\ ws_task' = [ws_task EXCEPT ![c] =
                                CASE outcome = "raised" -> [@ EXCEPT !.at = "finished"]
                                  [] outcome = "broadcast" ->
                                        [at |-> "sending", msg |-> m, todo |-> ws_clients,
                                         disconnected |-> {}]
                                  [] OTHER -> @]
              /\ ws_clients' = IF outcome = "raised" THEN ws_clients \ {c} ELSE ws_clients
    /\ UNCHANGED <<relayRest, ws_open, ws_sent>>

\* ping_loop wakes up and broadcasts a relay-ping when there are clients
WsPing ==
    /\ ws_task[0].at = "sleep"
    /\ Len(ws_msgs) < WsMaxMsgs
    /\ ws_clients # {}
    /\ ws_msgs' = Append(ws_msgs, [from |-> 0,
                                   raw |-> [valid |-> TRUE, t |-> "object", type |-> "relay-ping"],
                                   clients |-> ws_clients, outcome |-> "broadcast"])
    /\ ws_task' = [ws_task EXCEPT ![0] = [at |-> "sending", msg |-> Len(ws_msgs) + 1,
                                          todo |-> ws_clients, disconnected |-> {}]]
    /\ UNCHANGED <<relayRest, ws_clients, ws_open, ws_sent>>

\* one turn of "for ws in clients" in hub.broadcast, the clients in the order
\* the set gives them: the send succeeds on an open connection and fails on a
\* closed one; after the last turn the failed ones are discarded
WsSend(k, to) ==
    /\ ws_task[k].at = "sending"
    /\ to \in ws_task[k].todo
    /\ LET ok == to \in ws_open
           todo == ws_task[k].todo \ {to}
           disconnected == IF ok THEN ws_task[k].disconnected
                           ELSE ws_task[k].disconnected \cup {to}
       IN  /\ ws_sent' = ws_sent \cup {[msg |-> ws_task[k].msg, to |-> to, ok |-> ok]}
           /\ IF todo = {}
              THEN /\ ws_clients' = ws_clients \ disconnected
                   /\ ws_task' = [ws_task EXCEPT ![k] =
                                    [at |-> IF k = 0 THEN "sleep" ELSE "recv", msg |-> 0,
                                     todo |-> {}, disconnected |-> {}]]
              ELSE /\ ws_task' = [ws_task EXCEPT ![k].todo = todo,
                                                 ![k].disconnected = disconnected]
                   /\ UNCHANGED ws_clients
    /\ UNCHANGED <<relayRest, ws_open, ws_msgs>>

\* the peer of a connection goes away
WsPeerClose(c) ==
    /\ c \in ws_open
    /\ ws_open' = ws_open \ {c}
    /\ UNCHANGED <<relayRest, ws_clients, ws_task, ws_msgs, ws_sent>>

\* "async for raw in ws" ends on a closed connection: finally unregister
WsHandlerEnd(c) ==
    /\ ws_task[c].at = "recv"
    /\ c \notin ws_open
    /\ ws_task' = [ws_task EXCEPT ![c].at = "finished"]
    /\ ws_clients' = ws_clients \ {c}
    /\ UNCHANGED <<relayRest, ws_open, ws_msgs, ws_sent>>

RelayNext ==
    \/ \E c \in 1 .. WsConns : WsConnect(c)
    \/ \E c \in 1 .. WsConns : WsHello(c)
    \/ \E c \in 1 .. WsConns : WsReceive(c)
    \/ WsPing
    \/ \E k \in 0 .. WsConns, to \in 1 .. WsConns : WsSend(k, to)
    \/ \E c \in 1 .. WsConns : WsPeerClose(c)
    \/ \E c \in 1 .. WsConns : WsHandlerEnd(c)

SpecRelay == RelayInit /\ [][RelayNext]_vars

\* the broadcast of message m is over: no task is in its loop of sends
WsHandled(m) == \A k \in 0 .. WsConns : ws_task[k].msg # m

\* C29: every message received from a client that parses as JSON and whose
\* type is not 'takeuchi-status' is broadcast to every client registered at
\* that moment, the sender included; messages of type 'takeuchi-status' and
\* messages that do not parse are never sent to any client and do not end the
\* sender's connection; a client whose send fails during a broadcast is
\* removed from the client set, and a client is not in the client set once its
\* handler has finished.
C29_RelayRule ==
    /\ \A m \in DOMAIN ws_msgs :
          LET msg == ws_msgs[m] IN
          msg.from # 0 =>
             IF msg.raw.valid /\ msg.raw.type # "takeuchi-status"
             THEN /\ msg.from \in msg.clients
                  /\ WsHandled(m) =>
                        \A c \in msg.clients : \E s \in ws_sent : s.msg = m /\ s.to = c
             ELSE /\ \A s \in ws_sent : s.msg # m
                  /\ msg.outcome = "skipped"
    /\ \A s \in ws_sent : (~s.ok /\ WsHandled(s.msg)) => s.to \notin ws_clients
    /\ \A c \in 1 .. WsConns : ws_task[c].at = "finished" => c \notin ws_clients

(* --------------------- track_by_many_camera: SseHub --------------------- *)
\* The stream handlers run in threads of the HTTP server, publish is called
\* by the main loop only. A step is one operation on the hub's lock-protected
\* set or on a Queue, each of which is atomic. Messages are numbered by their
\* publish call.
SseInit ==
    /\ pc = "sse"
    /\ DxIdle /\ BlendIdle /\ StoreIdle /\ MainIdle /\ RansacIdle
    /\ EccIdle /\ WsIdle /\ scale_in = Null /\ scale_out = Null
    /\ SseIdle

\* do_GET: q = self.hub.add_client()
SseAddClient(q) ==
    /\ sse_taken[q].at = "new"
    /\ sse_clients' = sse_clients \cup {q}
    /\ sse_taken' = [sse_taken EXCEPT ![q].at = "streaming"]
    /\ UNCHANGED <<sseRest, sse_queue, sse_pub, sse_seq>>

\* do_GET: msg = q.get(timeout=1.0) returns the oldest message of the queue
SseConsume(q) ==
    /\ sse_taken[q].at = "streaming"
    /\ sse_queue[q] # <<>>
    /\ sse_taken' = [sse_taken EXCEPT ![q].msgs = Append(@, Head(sse_queue[q]))]
    /\ sse_queue' = [sse_queue EXCEPT ![q] = Tail(@)]
    /\ UNCHANGED <<sseRest, sse_clients, sse_pub, sse_seq>>

\* do_GET: a write to the client failed; finally: self.hub.remove_client(q)
SseRemoveClient(q) ==
    /\ sse_taken[q].at = "streaming"
    /\ sse_clients' = sse_clients \ {q}
    /\ sse_taken' = [sse_taken EXCEPT ![q].at = "gone"]
    /\ UNCHANGED <<sseRest, sse_queue, sse_pub, sse_seq>>

\* publish is called when the call before it has returned: the message is
\* encoded and the client set copied under the lock
SsePublish ==
    /\ sse_pub.at = "loop" /\ sse_pub.todo = {}
    /\ sse_seq < SseMaxMsgs
    /\ sse_seq' = sse_seq + 1
    /\ sse_pub' = [at |-> "loop", msg |-> sse_seq + 1, clients |-> sse_clients,
                   todo |-> sse_clients, q |-> 0, newest |-> <<>>]
    /\ UNCHANGED <<sseRest, sse_clients, sse_queue, sse_taken>>

\* a second put_nowait that gives the message up without trying
SsePutAgain_Skip ==
    /\ sse_pub.at = "put_again"
    /\ LET q == sse_pub.q
           todo == sse_pub.todo \ {q}
       IN  /\ UNCHANGED sse_queue
           /\ sse_pub' = [sse_pub EXCEPT
                  !.at = "loop", !.todo = todo, !.q = 0,
                  !.newest = IF todo # {} THEN <<>>
                             ELSE [c \in sse_pub.clients |->
                                      IF sse_queue'[c] = <<>> THEN 0
                                      ELSE sse_queue'[c][Len(sse_queue'[c])]]]
    /\ UNCHANGED <<sseRest, sse_clients, sse_taken, sse_seq>>

\* "for q in clients: q.put_nowait(msg)": the message is appended, or the
\* queue holds queue_size messages and raises Full. After the last queue
\* publish returns; newest records the last entry of each queue at that moment
\* (0 for an empty queue).
SsePut(q) ==
    /\ sse_pub.at = "loop"
    /\ q \in sse_pub.todo
    /\ IF Len(sse_queue[q]) >= SseQueueSize
       THEN /\ sse_pub' = [sse_pub EXCEPT !.at = "full", !.q = q]
            /\ UNCHANGED sse_queue
       ELSE LET todo == sse_pub.todo \ {q} IN
            /\ sse_queue' = [sse_queue EXCEPT ![q] = Append(@, sse_pub.msg)]
            /\ sse_pub' = [sse_pub EXCEPT
                   !.todo = todo,
                   !.newest = IF todo # {} THEN <<>>
                              ELSE [c \in sse_pub.clients |->
                                       IF sse_queue'[c] = <<>> THEN 0
                                       ELSE sse_queue'[c][Len(sse_queue'[c])]]]
    /\ UNCHANGED <<sseRest, sse_clients, sse_taken, sse_seq>>

\* "except Full: q.get_nowait()": the oldest message is taken out and thrown
\* away; a queue the handler has emptied meanwhile raises Empty
SseGet ==
    /\ sse_pub.at = "full"
    /\ sse_queue' = [sse_queue EXCEPT ![sse_pub.q] = IF @ = <<>> THEN @ ELSE Tail(@)]
    /\ sse_pub' = [sse_pub EXCEPT !.at = "put_again"]
    /\ UNCHANGED <<sseRest, sse_clients, sse_taken, sse_seq>>

\* the second q.put_nowait(msg), whose Full is passed over
SsePutAgain ==
    /\ sse_pub.at = "put_again"
    /\ LET q == sse_pub.q
           todo == sse_pub.todo \ {q}
       IN  /\ sse_queue' = [sse_queue EXCEPT ![q] =
                               IF Len(@) >= SseQueueSize THEN @ ELSE Append(@, sse_pub.msg)]
           /\ sse_pub' = [sse_pub EXCEPT
                  !.at = "loop", !.todo = todo, !.q = 0,
                  !.newest = IF todo # {} THEN <<>>
                             ELSE [c \in sse_pub.clients |->
                                      IF sse_queue'[c] = <<>> THEN 0
                                      ELSE sse_queue'[c][Len(sse_queue'[c])]]]
    /\ UNCHANGED <<sseRest, sse_clients, sse_taken, sse_seq>>

SseNext ==
    \/ \E q \in 1 .. SseClients : SseAddClient(q)
    \/ \E q \in 1 .. SseClients : SseConsume(q)
    \/ \E q \in 1 .. SseClients : SseRemoveClient(q)
    \/ SsePublish
    \/ \E q \in 1 .. SseClients : SsePut(q)
    \/ SseGet
    \/ SsePutAgain

SpecSse == SseInit /\ [][SseNext]_vars

(* ----------------------------- claims: SseHub --------------------------- *)
\* a publish call is under way / the last publish call has returned
SsePublishing == sse_pub.at # "loop" \/ sse_pub.todo # {}
SseReturned == sse_pub.msg > 0 /\ ~SsePublishing

\* the next step of publish
SsePublishStep == (\E q \in 1 .. SseClients : SsePut(q)) \/ SseGet \/ SsePutAgain

\* the queue holds at most queue_size messages, and they are consecutive
\* publish calls, oldest first: what was thrown away was older than all of them
SseQueueKept(q) ==
    /\ Len(sse_queue[q]) <= SseQueueSize
    /\ \A i \in 1 .. (Len(sse_queue[q]) - 1) : sse_queue[q][i + 1] = sse_queue[q][i] + 1

\* C30 as stated: publish never waits and no queue holds more than queue_size
\* messages; when publish returns, the message just published is the newest
\* entry of every queue that was registered when publish started.
C30_Original ==
    /\ \A q \in 1 .. SseClients : SseQueueKept(q)
    /\ SsePublishing => ENABLED SsePublishStep
    /\ SseReturned => \A q \in sse_pub.clients : sse_pub.newest[q] = sse_pub.msg

\* C30, amended: publish never waits and no queue holds more than queue_size
\* messages, a full queue losing its oldest messages only; once publish has
\* returned, for every queue that was registered when it started the message
\* just published is the newest entry of the queue, or the queue is empty and
\* that message is the last one its stream handler took from it.
C30_PublishDelivers ==
    /\ \A q \in 1 .. SseClients : SseQueueKept(q)
    /\ SsePublishing => ENABLED SsePublishStep
    /\ SseReturned =>
          \A q \in sse_pub.clients :
             LET queue == sse_queue[q]
                 taken == sse_taken[q].msgs
             IN  IF queue # <<>> THEN queue[Len(queue)] = sse_pub.msg
                 ELSE taken # <<>> /\ taken[Len(taken)] = sse_pub.msg

\* a publish call has returned after it found a queue full whose handler had
\* taken nothing: the first message was thrown away, the queue is full and
\* ends with the message published; from another queue the handler had taken
\* the message before publish returned
C30_Witness ==
    /\ SseReturned /\ sse_pub.msg > SseQueueSize
    /\ \E q \in sse_pub.clients :
          /\ sse_taken[q].msgs = <<>>
          /\ Len(sse_queue[q]) = SseQueueSize /\ Head(sse_queue[q]) > 1
          /\ sse_queue[q][Len(sse_queue[q])] = sse_pub.msg
    /\ \E q \in sse_pub.clients : sse_pub.newest[q] # sse_pub.msg

(* ------------------- scale-up of calibrate_two_cameras ------------------ *)
\* dx_full = int(round(dx_small * scale)) without the round
ScaleUps_Truncated(dx_small, wL_full, wS) == { (dx_small * wL_full) \div wS }

\* scale = float(wL_full) / float(wS); dx_full = int(round(dx_small * scale)),
\* for dx_small >= 0: round() takes an exact half to the even neighbour; with a
\* quotient that floating point cannot hold, a product that is a half in exact
\* arithmetic is computed a little beside it and lands on either neighbour.
\* The quotient is held exactly when the reduced divisor is a power of two.
ScaleUps(dx_small, wL_full, wS) ==
    LET q == (dx_small * wL_full) \div wS
        r == (dx_small * wL_full) % wS
        exact == \E k \in 0 .. 11 : (wL_full * 2^k) % wS = 0
    IN  IF 2 * r = wS /\ ~exact THEN {q, q + 1}
        ELSE {RoundHalfEven(dx_small * wL_full, wS)}

\* search widths and full widths: small ones, 960 of 1280 and of 1920, 480 of
\* 1000, a search image wider than the frame, and the search at full width;
\* the right frame has the shape of the left one, or is wider, or higher
ScaleInputs ==
    { [dx_small |-> d, wS |-> ws[1], wL_full |-> ws[2], hL_full |-> 2,
       wR_full |-> ws[2] + m[1], hR_full |-> 2 + m[2]] :
      ws \in { <<4, 4>>, <<4, 6>>, <<3, 5>>, <<6, 4>>, <<480, 1000>>, <<960, 1280>>,
               <<960, 1920>>, <<1280, 1280>> },
      d \in {0, 1, 2, 3, 5, 30, 54, 577, 883},
      m \in { <<0, 0>>, <<2, 0>>, <<0, 1>> } }

ScaleInit ==
    /\ pc = "scale_enter"
    /\ DxIdle /\ BlendIdle /\ StoreIdle /\ MainIdle /\ RansacIdle
    /\ EccIdle /\ WsIdle /\ SseIdle
    /\ scale_in \in { i \in ScaleInputs : i.dx_small < i.wS }
    /\ scale_out = Null

\* lines 546-586: the shape test, the scale-up and the Calibration
ScaleUpStep ==
    /\ pc = "scale_enter"
    /\ pc' = "scale_done"
    /\ IF <<scale_in.hL_full, scale_in.wL_full>> # <<scale_in.hR_full, scale_in.wR_full>>
       THEN scale_out' = Err("ResolutionMismatch")
       ELSE \E dx_full \in ScaleUps(scale_in.dx_small, scale_in.wL_full, scale_in.wS) :
               scale_out' = [ok |-> TRUE,
                             calib |-> ComposeCalibration(dx_full, scale_in.wL_full,
                                                          scale_in.hL_full, scale_in.wR_full)]
    /\ UNCHANGED <<dxVars, blendVars, storeVars, mainVars, ransacVars, eccVars, wsVars,
                   sseVars, scale_in>>

SpecScale == ScaleInit /\ [][ScaleUpStep]_vars

\* C26: the translation stored in the Calibration is the search-resolution dx
\* multiplied by full_width / search_width and rounded to the nearest integer
\* (no integer is nearer to the product); when the search ran at the full
\* width the stored translation is the dx the search found.
C26_ScaleUp ==
    (pc = "scale_done" /\ scale_out.ok) =>
        LET t == Tx(scale_out.calib.H_right_to_left)
            twice == 2 * (t * scale_in.wS - scale_in.dx_small * scale_in.wL_full)
        IN  /\ twice <= scale_in.wS /\ -twice <= scale_in.wS
            /\ scale_in.wS = scale_in.wL_full => t = scale_in.dx_small
            /\ Tx(scale_out.calib.H_right_to_canvas)
                   - Tx(scale_out.calib.H_left_to_canvas) = t

\* dx = 577 found at width 960 is stored as 769 for frames 1280 wide
C26_Witness ==
    /\ pc = "scale_done" /\ scale_out.ok
    /\ scale_in.dx_small = 577 /\ scale_in.wS = 960 /\ scale_in.wL_full = 1280
    /\ Tx(scale_out.calib.H_right_to_left) = 769

(* ----------------------- claims: canvas of a calibration ---------------- *)
\* the canvas columns and rows a frame of shape <<h, w>> covers under H
CanvasCols(H, shape) == { x + Tx(H) : x \in 0 .. (shape[2] - 1) }
CanvasRows(H, shape) == { y + Ty(H) : y \in 0 .. (shape[1] - 1) }

\* C11: for the Calibration calibrate_two_cameras returns, both canvas
\* homographies place their frame at non-negative coordinates, the right one is
\* the left one after the discovered dx, every pixel of both frames lies inside
\* out_size, no smaller canvas holds them (its first and last column and row are
\* covered), and out_size is the union bounding box of the left rectangle and
\* the right rectangle shifted by dx.
C11_SmallestCanvas ==
    pc = "save" =>
        LET c == estimated
            dx == Tx(c.H_right_to_left)
            out_w == c.out_size_wh[1]
            out_h == c.out_size_wh[2]
            sl == Shape(frame_left)
            sr == Shape(frame_right)
            cols == CanvasCols(c.H_left_to_canvas, sl) \cup CanvasCols(c.H_right_to_canvas, sr)
            rows == CanvasRows(c.H_left_to_canvas, sl) \cup CanvasRows(c.H_right_to_canvas, sr)
        IN  /\ Tx(c.H_left_to_canvas) >= 0 /\ Ty(c.H_left_to_canvas) >= 0
            /\ Tx(c.H_right_to_canvas) >= 0 /\ Ty(c.H_right_to_canvas) >= 0
            /\ Tx(c.H_right_to_canvas) = Tx(c.H_left_to_canvas) + dx
            /\ Ty(c.H_right_to_canvas) = Ty(c.H_left_to_canvas) + Ty(c.H_right_to_left)
            /\ cols = 0 .. (out_w - 1)
            /\ rows = 0 .. (out_h - 1)
            /\ out_w = Max2(sl[2], dx + sr[2]) - Min2(0, dx)
            /\ out_h = Max2(sl[1], sr[1])

\* C11 witness: a calibration with a positive dx, whose canvas is wider than a
\* frame, has been returned.
C11_Witness ==
    /\ pc = "save"
    /\ Tx(estimated.H_right_to_left) > 0
    /\ estimated.out_size_wh[1] > frame_left.w
    /\ estimated.out_size_wh[1] < 2 * frame_left.w

(* --------------------- claims: homographies rendered -------------------- *)
\* a 3x3 matrix whose top-left 2x2 block is the identity and whose bottom row
\* is (0, 0, 1)
IsPureTranslation(H) ==
    /\ Len(H) = 3 /\ \A i \in 1 .. 3 : Len(H[i]) = 3
    /\ H[1][1] = 1 /\ H[1][2] = 0 /\ H[2][1] = 0 /\ H[2][2] = 1
    /\ H[3] = <<0, 0, 1>>

\* C12: every homography of a Calibration the renderer has rendered a frame
\* with, estimated or loaded, is a pure translation.
C12_PureTranslations ==
    (pc \in {"render", "done"} /\ joined # Null) =>
        /\ IsPureTranslation(calib.H_right_to_left)
        /\ IsPureTranslation(calib.H_left_to_canvas)
        /\ IsPureTranslation(calib.H_right_to_canvas)

(* -------------------------- claims: frame reads ------------------------- *)
\* a step in which a camera read fails: the failing camera was asked once, the
\* right camera not at all when the left one failed, and the step produces no
\* Calibration, no calibration file, no BlendContext and no composite frame
FailingStep ==
    failed_cam' # "none" =>
        /\ reads'.L = reads.L + 1
        /\ reads'.R = IF failed_cam' = "L" THEN reads.R ELSE reads.R + 1
        /\ UNCHANGED <<calib, estimated, file, loaded, blend_ctx, joined>>
        /\ pc = "collect" => (estimated' = Null /\ calib' = Null /\ file' = Null)

\* C13: a failed frame read, during calibration or in the render loop, ends the
\* run with FrameReadFailure; the failing step asks the failing camera once and
\* produces no Calibration and no composite frame, and after it no step is
\* taken: no frame is read again.
C13_ReadFailureFatal ==
    /\ [](failed_cam # "none" => (pc = "aborted" /\ error = Err("FrameReadFailure")))
    /\ [][FailingStep]_vars
    /\ [][pc # "aborted"]_vars

\* C13 witness: the left camera failed in the render loop after a frame had
\* been rendered; the right camera was not asked for its frame.
C13_Witness ==
    /\ pc = "aborted" /\ failed_cam = "L" /\ error = Err("FrameReadFailure")
    /\ joined # Null /\ estimated # Null
    /\ reads.L = reads.R + 1

(* ----------------------- claims: frame-pair sizes ----------------------- *)
\* one of the frame pairs the collection loop collected has a left and a right
\* frame of different shapes (the pair read before the loop is not collected)
MismatchCollected ==
    \E j \in 1 .. Len(matchL_list) :
        Shape(FrameAt(cams.L, j + 1)) # Shape(FrameAt(cams.R, j + 1))

\* C14: when a collected frame pair has a left and a right frame that differ
\* in width or height, calibrate_two_cameras returns no Calibration and, once
\* it has ended, has failed with an error.
C14_PairSizesChecked ==
    (~args.load_calib /\ MismatchCollected) =>
        /\ estimated = Null
        /\ pc \in {"collect", "estimate", "aborted"}

(* --------------------- claims: the seeded generator --------------------- *)
\* C15: two calls of the fit on the same matched points, each with a generator
\* made from the same seed, sample the same sequence of hypotheses and return
\* the same result: translation, match count and inlier count, or the same
\* failure.
C15_SeededRuns ==
    (pc = "ransac_done" /\ first_run # Null) =>
        /\ sampled = first_run.sampled
        /\ fit = first_run.fit

\* C15 witness: the first call stopped early on its second hypothesis and left
\* draws unused; the second call has returned a translation as well.
C15_Witness ==
    /\ pc = "ransac_done" /\ first_run # Null
    /\ fit.ok /\ Len(sampled) = 2
    /\ sampled[1] # sampled[2]
    /\ seed_draws[3] # seed_draws[1]

(* -------------------- claims: the composite, by pixel ------------------- *)
\* the right canvas value of canvas pixel p: the warped right frame, rescaled by
\* the overlap gain when exposure_match is on and the overlap is not empty
RightCanvasAt(p) ==
    LET v == WarpedAt(frame_right, calib.H_right_to_canvas, p)
    IN  IF exposure_match /\ AnyTrue(blend_ctx.both, joined.h, joined.w)
        THEN GainPixel(v, OverlapSum(frame_left, calib.H_left_to_canvas),
                       OverlapSum(frame_right, calib.H_right_to_canvas))
        ELSE v

\* C16: in the composite of render_joined_frame_with_context every pixel of the
\* BlendContext's overlap region is left * weight_left + right * weight_right
\* re-quantized to the integer below, every left-only pixel is the left canvas
\* value, every right-only pixel the right canvas value, every pixel of no
\* region is 0, and every value lies in [0, 255].
C16_CompositeByPixel ==
    pc = "rendered" =>
        /\ joined.w = blend_ctx.out_size_wh[1] /\ joined.h = blend_ctx.out_size_wh[2]
        /\ \A p \in CanvasPixels(blend_ctx) :
              LET out == joined.px[p[1]][p[2]]
                  l == WarpedAt(frame_left, calib.H_left_to_canvas, p)
                  r == RightCanvasAt(p)
                  wl == blend_ctx.wL3[p[1]][p[2]]
                  wr == blend_ctx.wR3[p[1]][p[2]]
                  both == blend_ctx.both[p[1]][p[2]]
                  onlyL == blend_ctx.onlyL[p[1]][p[2]]
                  onlyR == blend_ctx.onlyR[p[1]][p[2]]
              IN  /\ out \in 0 .. 255
                  /\ both => /\ wl.den = wr.den
                             /\ out * wl.den <= l * wl.num + r * wr.num
                             /\ l * wl.num + r * wr.num < (out + 1) * wl.den
                  /\ onlyL => out = l
                  /\ onlyR => out = r
                  /\ (~both /\ ~onlyL /\ ~onlyR) => out = 0

\* C16 witness: a composite with an overlap pixel whose value lies strictly
\* between two different canvas values, a pixel of each exclusive region and a
\* pixel no camera covers.
C16_Witness ==
    /\ pc = "rendered"
    /\ \E p \in CanvasPixels(blend_ctx) :
          /\ blend_ctx.both[p[1]][p[2]]
          /\ Min2(WarpedAt(frame_left, calib.H_left_to_canvas, p), RightCanvasAt(p))
                < joined.px[p[1]][p[2]]
          /\ joined.px[p[1]][p[2]]
                < Max2(WarpedAt(frame_left, calib.H_left_to_canvas, p), RightCanvasAt(p))
    /\ \E p \in CanvasPixels(blend_ctx) : blend_ctx.onlyL[p[1]][p[2]]
    /\ \E p \in CanvasPixels(blend_ctx) : blend_ctx.onlyR[p[1]][p[2]]
    /\ \E p \in CanvasPixels(blend_ctx) :
          ~blend_ctx.both[p[1]][p[2]] /\ ~blend_ctx.onlyL[p[1]][p[2]]
             /\ ~blend_ctx.onlyR[p[1]][p[2]]

(* ------------------- claims: rendering's shared inputs ------------------ *)
\* a step of the render loop leaves the Calibration, the BlendContext, the
\* shapes it was built from and the exposure_match option as they were
RenderKeepsInputs ==
    pc = "render" => UNCHANGED <<calib, blend_ctx, ctx_shapes, exposure_match>>

\* C17: rendering never changes its shared inputs: after any number of calls of
\* render_joined_frame_with_context the Calibration is the one that was loaded,
\* the BlendContext is the one build_blend_context made from it, and the two
\* input frames are the frames the cameras delivered.
C17_RenderKeepsInputs ==
    /\ []((pc \in {"render", "done"} /\ joined # Null) =>
            /\ calib = loaded.calib
            /\ blend_ctx = build_blend_context(ctx_shapes[1], ctx_shapes[2], calib)
            /\ frame_left = FrameAt(cams.L, reads.L)
            /\ frame_right = FrameAt(cams.R, reads.R))
    /\ [][RenderKeepsInputs]_vars

\* C17 witness: the render loop has rendered at least three frames with a
\* BlendContext that has an overlap region.
C17_Witness ==
    /\ pc = "render" /\ joined # Null
    /\ reads.L >= 4 /\ estimated # Null
    /\ \E p \in CanvasPixels(blend_ctx) : blend_ctx.both[p[1]][p[2]]

(* ------------------- claims: the overlap search result ------------------ *)
\* the candidates of the search: the constrained range visited with the step
Candidates ==
    LET lo == DxLo(dx_args, left_match.w)
        hi == DxHi(dx_args, left_match.w)
    IN  { d \in lo .. hi : (d - lo) % DxStep(dx_args) = 0 }

\* sum over the overlap of |left[:, dx:] - right[:, :w-dx]|
OverlapAbsDiff(dx) ==
    LET pairs == { <<y, x>> \in Rows(left_match) \X (0 .. (left_match.w - dx - 1)) : TRUE }
        RECURSIVE Total(_)
        Total(S) == IF S = {} THEN 0
                    ELSE LET q == CHOOSE q \in S : TRUE
                         IN  Abs(left_match.px[q[1]][dx + q[2]] - right_match.px[q[1]][q[2]])
                                + Total(S \ {q})
    IN  Total(pairs)

\* mean_abs_diff * reference_overlap_width / max(1, w - dx) as a fraction, with
\* reference_overlap_width = w - (smallest dx of the constrained range)
C18Score(dx) ==
    LET w == left_match.w
        ov == w - dx
    IN  [num |-> OverlapAbsDiff(dx) * (w - DxLo(dx_args, w)),
         den |-> (left_match.h * ov) * Max2(1, ov)]

\* a <= b and a = b for fractions with positive denominators
FracLeq(a, b) == a.num * b.den <= b.num * a.den
FracEq(a, b) == a.num * b.den = b.num * a.den

\* C18: when _estimate_dx_bruteforce returns, its dx is a candidate of the
\* constrained range visited with the step whose score mean_abs_diff *
\* reference_overlap_width / max(1, w - dx) is the least over all candidates,
\* and the returned score is that least score.
C18_MinimumScore ==
    (pc = "dx_done" /\ dx_result.ok) =>
        /\ dx_result.dx \in Candidates
        /\ \A d \in Candidates : FracLeq(C18Score(dx_result.dx), C18Score(d))
        /\ FracEq(dx_result.score, C18Score(dx_result.dx))

\* C18 witness: a search over at least three candidates with different scores
\* whose best candidate is neither the first nor the last one.
C18_Witness ==
    /\ pc = "dx_done" /\ dx_result.ok
    /\ Cardinality(Candidates) >= 3
    /\ \E d \in Candidates : d < dx_result.dx /\ ~FracLeq(C18Score(d), C18Score(dx_result.dx))
    /\ \E d \in Candidates : d > dx_result.dx /\ ~FracLeq(C18Score(d), C18Score(dx_result.dx))

(* ------------------- claims: the bounds of the search ------------------- *)
\* the dx values the finished search scored, and the one it returned
ScoredDx == dx_result.scored \cup {dx_result.dx}

\* C19 as stated: a returned dx, and every scored candidate, lies inside the
\* caller's [dx_min, dx_max] and leaves an overlap width within
\* [min_overlap_ratio * w, max_overlap_ratio * w].
C19_Original ==
    (pc = "dx_done" /\ dx_result.ok) =>
        \A d \in ScoredDx :
            /\ dx_args.dx_min <= d /\ d <= dx_args.dx_max
            /\ dx_args.min_pct * left_match.w <= 100 * (left_match.w - d)
            /\ 100 * (left_match.w - d) <= dx_args.max_pct * left_match.w

\* the caller's dx_min moved into [0, w-1], and the caller's dx_max moved into
\* [0, w-1] and lifted to that dx_min when it lies below it
CallerLo ==
    IF dx_args.dx_min < 0 THEN 0
    ELSE IF dx_args.dx_min > left_match.w - 1 THEN left_match.w - 1 ELSE dx_args.dx_min
CallerHi ==
    LET m == IF dx_args.dx_max < 0 THEN 0
             ELSE IF dx_args.dx_max > left_match.w - 1 THEN left_match.w - 1
             ELSE dx_args.dx_max
    IN  IF m < CallerLo THEN CallerLo ELSE m

\* an overlap width of at least one column and at least min_overlap_ratio * w
ReachesMinOverlap(ov) == ov >= 1 /\ dx_args.min_pct * left_match.w <= 100 * ov

\* a permitted overlap width: it reaches the smallest overlap, does not exceed
\* the image, and is at most max_overlap_ratio * w or else is the least width
\* that reaches the smallest overlap
OverlapPermitted(ov) ==
    /\ ReachesMinOverlap(ov) /\ ov <= left_match.w
    /\ \/ 100 * ov <= dx_args.max_pct * left_match.w
       \/ ~ReachesMinOverlap(ov - 1)

\* C19 as amended: a returned dx was scored, and every scored candidate lies
\* inside the caller's range moved into [0, w-1] (dx_max lifted to dx_min when
\* below it) and leaves an overlap width w - dx of at least
\* max(1, ceil(min_overlap_ratio * w)) and at most floor(max_overlap_ratio * w),
\* or exactly the smallest permitted width when that floor lies below it.
C19_WithinBounds ==
    (pc = "dx_done" /\ dx_result.ok) =>
        /\ dx_result.dx \in dx_result.scored
        /\ \A d \in dx_result.scored :
              /\ CallerLo <= d /\ d <= CallerHi
              /\ OverlapPermitted(left_match.w - d)

\* C19 witness: a search with step 1 over a well-formed caller range that
\* scored several candidates and left out a dx of the caller's range because
\* of the overlap bounds.
C19_Witness ==
    /\ pc = "dx_done" /\ dx_result.ok
    /\ DxStep(dx_args) = 1 /\ dx_args.dx_min <= dx_args.dx_max
    /\ Cardinality(dx_result.scored) >= 2
    /\ \E d \in dx_args.dx_min .. Min2(dx_args.dx_max, left_match.w - 1) :
          d \notin dx_result.scored

(* ------------------ claims: too few candidates scored ------------------- *)
\* the candidates of the constrained range whose overlap reaches the smallest
\* permitted overlap
ValidCandidates == { d \in Candidates : ReachesMinOverlap(left_match.w - d) }

\* C20: with a constrained range that is not empty, the overlap search fails
\* with EstimationFailed when no candidate qualifies, and fails with
\* AggregationTooSmall, returning no dx, when one or two valid candidates are
\* evaluated.
C20_TooFewCandidates ==
    (pc = "dx_done" /\ Shape(left_match) = Shape(right_match) /\ Candidates # {}) =>
        IF ValidCandidates = {}
        THEN dx_result = Err("EstimationFailed")
        ELSE Cardinality(ValidCandidates) < 3 => dx_result = Err("AggregationTooSmall")

(* --------------------- claims: the collection loop ---------------------- *)
\* a turn of the collection loop that pulled a frame pair
PairPulled == pc = "collect" /\ Len(matchL_list') = Len(matchL_list) + 1

\* C21 as stated: the number of pairs collected never exceeds the configured
\* maximum frame count, and no pair is pulled after the time budget has elapsed.
C21_Original ==
    /\ [](~args.load_calib => Len(matchL_list) <= args.calib_max_frames)
    /\ [][PairPulled => now - start < args.calib_seconds]_vars

\* a turn of the loop: it adds one pair to both lists; a pair after the first is
\* pulled only under the frame count and with the budget not yet elapsed; the
\* loop goes on exactly when the count is still under the maximum and the
\* budget has still not elapsed, and otherwise goes to the estimation
CollectTurn ==
    PairPulled =>
        /\ Len(matchR_list') = Len(matchL_list')
        /\ Len(matchL_list) > 0 =>
              /\ Len(matchL_list) < args.calib_max_frames
              /\ now - start < args.calib_seconds
        /\ pc' \in {"collect", "estimate"}
        /\ pc' = "collect" <=>
              /\ Len(matchL_list') < args.calib_max_frames
              /\ now' - start < args.calib_seconds

\* C21 as amended: the loop pulls one pair whatever the budget and the frame
\* count are; every later pair is pulled only when the count is under the
\* maximum and the budget had not elapsed when the turn before ended; so the
\* pairs collected never exceed max(1, maximum frame count), every turn whose
\* reads succeed adds a pair, and the loop stops at whichever limit comes first.
C21_LoopBounded ==
    /\ [](~args.load_calib =>
            /\ Len(matchL_list) <= Max2(1, args.calib_max_frames)
            /\ pc = "collect" =>
                  (Len(matchL_list) = 0 \/ Len(matchL_list) < args.calib_max_frames))
    /\ [][CollectTurn]_vars
    /\ [][(pc = "collect" /\ failed_cam' = "none") => PairPulled]_vars

\* C21 witness: the loop ended on the time budget after three pairs with a
\* fourth still allowed by the frame count.
C21_Witness ==
    /\ pc = "estimate" /\ Len(matchL_list) = 3
    /\ args.calib_max_frames > 3 /\ args.calib_seconds > 0
    /\ now - start >= args.calib_seconds

(* ----------------------- claims: exposure matching ---------------------- *)
\* the canvas pixels of the overlap region
OverlapPixels == { p \in CanvasPixels(blend_ctx) : blend_ctx.both[p[1]][p[2]] }

\* the sum of a warped frame over the canvas pixels of the set S
SumWarped(frame, H, S) ==
    SumRange([y \in 0 .. (blend_ctx.out_size_wh[2] - 1) |->
                 SumRange([x \in 0 .. (blend_ctx.out_size_wh[1] - 1) |->
                              IF <<y, x>> \in S THEN WarpedAt(frame, H, <<y, x>>) ELSE 0],
                          0, blend_ctx.out_size_wh[1] - 1)],
             0, blend_ctx.out_size_wh[2] - 1)

\* v is the right canvas value r times mean_left / max(1e-6, mean_right), the
\* means being sl / n and sr / n, held in 8 bits: cut at 255, fraction dropped
IsGained(v, r, sl, sr) ==
    IF sr = 0 THEN v = (IF r = 0 \/ sl = 0 THEN 0 ELSE 255)
    ELSE \/ v < 255 /\ v * sr <= r * sl /\ r * sl < (v + 1) * sr
         \/ v = 255 /\ 255 * sr <= r * sl

\* C22: exposure matching changes only the right frame. With exposure_match on
\* and an overlap that is not empty, the right canvas the composite shows is
\* the warped right frame times mean_left / max(1e-6, mean_right), the means
\* taken over the overlap region only, held in 8 bits; the left canvas it shows
\* is the warped left frame. With exposure_match off, or an empty overlap, the
\* right canvas is the warped right frame.
C22_ExposureMatch ==
    pc = "rendered" =>
        LET sl == SumWarped(frame_left, calib.H_left_to_canvas, OverlapPixels)
            sr == SumWarped(frame_right, calib.H_right_to_canvas, OverlapPixels)
            on == exposure_match /\ OverlapPixels # {}
        IN  \A p \in CanvasPixels(blend_ctx) :
               LET out == joined.px[p[1]][p[2]]
                   l == WarpedAt(frame_left, calib.H_left_to_canvas, p)
                   r == WarpedAt(frame_right, calib.H_right_to_canvas, p)
                   wl == blend_ctx.wL3[p[1]][p[2]]
                   wr == blend_ctx.wR3[p[1]][p[2]]
               IN  /\ blend_ctx.onlyL[p[1]][p[2]] => out = l
                   /\ blend_ctx.onlyR[p[1]][p[2]] =>
                         IF on THEN IsGained(out, r, sl, sr) ELSE out = r
                   /\ blend_ctx.both[p[1]][p[2]] =>
                         \E g \in {0, 255, r, (r * sl) \div Max2(1, sr)} :
                            /\ IF on THEN IsGained(g, r, sl, sr) ELSE g = r
                            /\ out * wl.den <= l * wl.num + g * wr.num
                            /\ l * wl.num + g * wr.num < (out + 1) * wl.den

\* C22 witness: a composite made with exposure_match on whose overlap means
\* differ from the means over the whole canvas, with a right-only pixel that the
\* gain changed without saturating it.
C22_Witness ==
    /\ pc = "rendered" /\ exposure_match /\ OverlapPixels # {}
    /\ \E p \in CanvasPixels(blend_ctx) :
          /\ blend_ctx.onlyR[p[1]][p[2]]
          /\ joined.px[p[1]][p[2]] \notin
                {0, 255, WarpedAt(frame_right, calib.H_right_to_canvas, p)}
    /\ \E p \in CanvasPixels(blend_ctx) \ OverlapPixels, q \in OverlapPixels :
          /\ WarpedAt(frame_right, calib.H_right_to_canvas, p) > 0
          /\ WarpedAt(frame_right, calib.H_right_to_canvas, p)
                # WarpedAt(frame_right, calib.H_right_to_canvas, q)

(* ---------------------- claims: the two renderers ----------------------- *)
\* C27: for every Calibration, every pair of frames and both values of
\* exposure_match, render_joined_frame returns the image that
\* render_joined_frame_with_context returns given the BlendContext that
\* build_blend_context built from the shapes of those frames and the Calibration.
C27_RenderersAgree ==
    pc = "rendered_plain" =>
        /\ blend_ctx = build_blend_context(Shape(frame_left), Shape(frame_right), calib)
        /\ joined = render_joined_frame_with_context(frame_left, frame_right, calib,
                                                     blend_ctx, exposure_match)

\* C27 witness: render_joined_frame returned a composite with a blended overlap
\* pixel, a left-only and a right-only pixel, made with exposure_match on.
C27_Witness ==
    /\ pc = "rendered_plain" /\ exposure_match
    /\ \E p \in CanvasPixels(blend_ctx) :
          /\ blend_ctx.both[p[1]][p[2]]
          /\ joined.px[p[1]][p[2]] # WarpedAt(frame_left, calib.H_left_to_canvas, p)
          /\ joined.px[p[1]][p[2]] # WarpedAt(frame_right, calib.H_right_to_canvas, p)
    /\ \E p \in CanvasPixels(blend_ctx) : blend_ctx.onlyL[p[1]][p[2]]
    /\ \E p \in CanvasPixels(blend_ctx) :
          blend_ctx.onlyR[p[1]][p[2]] /\ joined.px[p[1]][p[2]] > 0

(* ------------------------ claims: the RANSAC loop ----------------------- *)
\* the displacements less than 3 pixels from the displacement with index i
\* (counted from 0), and their number
Support(i) ==
    { j \in DOMAIN diffs :
        (diffs[j].x - diffs[i + 1].x) * (diffs[j].x - diffs[i + 1].x)
          + (diffs[j].y - diffs[i + 1].y) * (diffs[j].y - diffs[i + 1].y) < 9 }
SupportCount(i) == Cardinality(Support(i))

\* the hypothesis has more than 80% of the matches as inliers
Over80(i) == 5 * SupportCount(i) > 4 * Len(diffs)

\* C23: the loop runs at most RansacIters iterations (5000 in the source), each
\* sampling one displacement as its hypothesis; it stops right after the first
\* hypothesis with more than 80% of the matches as inliers; on exit the
\* retained inlier set is that of a sampled hypothesis with the largest inlier
\* count among all sampled; and the call fails with UnstableRansac, returning
\* no translation, exactly when that count is below 8.
C23_RansacLoop ==
    /\ Len(sampled) <= RansacIters
    /\ \A k \in DOMAIN sampled : sampled[k] \in 0 .. (Len(diffs) - 1)
    /\ \A k \in DOMAIN sampled : k < Len(sampled) => ~Over80(sampled[k])
    /\ pc = "ransac_loop" => Len(sampled) < RansacIters
    /\ pc \in {"ransac_end", "ransac_done"} =>
          /\ Len(sampled) >= 1
          /\ Len(sampled) < RansacIters => Over80(sampled[Len(sampled)])
          /\ \A k \in DOMAIN sampled : SupportCount(sampled[k]) <= best_count
          /\ \E k \in DOMAIN sampled :
                SupportCount(sampled[k]) = best_count /\ best_inliers.idx = Support(sampled[k])
    /\ pc = "ransac_done" =>
          IF best_count < 8 THEN fit = Err("UnstableRansac")
          ELSE fit.ok /\ fit.best_count = best_count

\* C23 witness: neither cluster reaches 80%: the loop used its whole budget,
\* sampled the smaller cluster first and the larger one later, and returned
\* the larger one.
C23_Witness ==
    /\ pc = "ransac_done" /\ fit.ok /\ Len(sampled) = RansacIters
    /\ SupportCount(sampled[1]) >= 8
    /\ SupportCount(sampled[1]) < best_count
    /\ ~Over80(sampled[RansacIters])


(* --------------------------- claims: phases of main --------------------- *)
\* position of a control point of main in the order of its phases
PhaseRank(p) ==
    CASE p = "start" -> 0
      [] p \in {"load", "calibrate"} -> 1
      [] p = "collect" -> 2
      [] p = "estimate" -> 3
      [] p = "save" -> 4
      [] p = "reload" -> 5
      [] p = "build_ctx" -> 6
      [] p = "render" -> 7
      [] p = "done" -> 8
      [] OTHER -> 9

\* the Calibration main holds was read from the file: the file given by
\* --load_calib, or the file the estimated Calibration was just saved to
CalibrationObtained ==
    /\ calib # Null /\ loaded # Null /\ loaded.ok /\ calib = loaded.calib
    /\ IF args.load_calib
       THEN estimated = Null /\ matchL_list = <<>>
       ELSE estimated # Null /\ file = Dumps(to_json_dict(estimated))

\* what a step of main may change, by the phase it is taken in
PhaseStep ==
    /\ PhaseRank(pc') >= PhaseRank(pc)
    /\ estimated' # estimated => pc = "estimate" /\ ~args.load_calib
    /\ file' # file => pc = "save"
    /\ loaded' # loaded => pc \in {"load", "reload"}
    /\ calib' # calib => pc \in {"load", "estimate", "reload"}
    /\ blend_ctx' # blend_ctx => pc = "build_ctx" /\ blend_ctx = Null
    /\ joined' # joined => pc = "render" /\ blend_ctx' = blend_ctx

\* C25: the phases of main occur in order: a Calibration is obtained first
\* (loaded from a file, or estimated, then saved, then reloaded from the saved
\* file), then the BlendContext is built exactly once from that Calibration,
\* and only then are frames rendered; once rendering has started neither the
\* Calibration nor the BlendContext is made again.
C25_PhaseOrder ==
    /\ [](/\ pc \in {"build_ctx", "render", "done"} => CalibrationObtained
          /\ pc \in {"render", "done"} =>
                blend_ctx = build_blend_context(ctx_shapes[1], ctx_shapes[2], calib)
          /\ pc \notin {"render", "done", "aborted"} => blend_ctx = Null
          /\ joined # Null => blend_ctx # Null /\ calib # Null)
    /\ [][PhaseStep]_vars

\* frames were rendered after an estimated Calibration was saved and reloaded
C25_Witness ==
    /\ pc = "done" /\ joined # Null /\ reads.L >= 6
    /\ ~args.load_calib /\ CalibrationObtained
    /\ blend_ctx = build_blend_context(ctx_shapes[1], ctx_shapes[2], calib)


(* ------------------- claims: ties of the overlap search ----------------- *)
\* the candidates whose score is the score of the returned dx
TiedWithResult ==
    { d \in Candidates : FracEq(C18Score(d), C18Score(dx_result.dx)) }

\* C28: when several candidate dx values attain the same minimum score,
\* _estimate_dx_bruteforce returns the smallest of them, the first visited and
\* the one with the widest overlap: a later candidate replaces the best only
\* when its score is strictly lower.
C28_TieBreak ==
    (pc = "dx_done" /\ dx_result.ok) =>
        /\ \A d \in TiedWithResult : dx_result.dx <= d
        /\ \A d \in Candidates :
              d < dx_result.dx => FracLess(C18Score(dx_result.dx), C18Score(d))

\* C28 witness: two candidates share the least score, a candidate visited
\* before them scored higher, and so did one visited between them
C28_Witness ==
    /\ pc = "dx_done" /\ dx_result.ok
    /\ Cardinality(TiedWithResult) >= 2
    /\ \E d \in Candidates : d < dx_result.dx
    /\ \E d \in Candidates \ TiedWithResult, e \in TiedWithResult : dx_result.dx < d /\ d < e

====
